---------------------------- MODULE Spec2Model ----------------------------
(***************************************************************************)
(* State-machine model of RecommendationModule                             *)
(* (src/modules/recommendations.py): the performer and scene recommenders, *)
(* their two caches and the rotation counter they share.                   *)
(*                                                                         *)
(* Python values are represented as follows.                               *)
(*   - a dict with insertion order (the performer cache, the scene cache)  *)
(*     is the sequence of its values in insertion order; the key of a      *)
(*     performer record is its "id" field, the key of a scene-cache entry  *)
(*     its "category" field;                                               *)
(*   - a float is an exact rational <<n, d>> with d > 0, in lowest terms;  *)
(*   - a numeric attribute of a performer is a natural number, None        *)
(*     (present with a null value) or Missing (key not in the dict);       *)
(*   - an absent cup_letter is the empty string (None and '' are both      *)
(*     falsy and equal to no cup letter);                                  *)
(*   - an exception that leaves a helper is the field exc of its result.   *)
(***************************************************************************)
EXTENDS Integers, Sequences, FiniteSets, TLC

VARIABLES
    performers_data,                \* self.performers_data
    scenes_data,                    \* self.scenes_data
    performer_recommendation_cache, \* self._performer_recommendation_cache
    scene_recommendation_cache,     \* self._scene_recommendation_cache
    recommendation_counter,         \* self._recommendation_counter
    lastOp,     \* observation: the method that ran last
    ret,        \* observation: what that method returned
    lastStats,  \* observation: generate_all_stats in that call: "not_called", "returned", "raised"
    loadFailed, \* observation: the last _load_data caught an exception
    statsCalls, \* observation: generate_all_stats calls made by recommend_performers since the last load
    emptyPasses,\* observation: those of them after which the performer cache was still empty
    statsRaised,\* observation: generate_all_stats has raised since the last load
    firstIds,   \* observation: <<ids>> returned by the first recommend_performers since the last load, <<>> before it
    threads,    \* the calls in flight when callers run in threads: per thread, its position and its locals
    staleIds    \* observation: the ids of the cached records that a pass wrote with statistics fetched before the last reload_data

vars == <<performers_data, scenes_data, performer_recommendation_cache,
          scene_recommendation_cache, recommendation_counter, lastOp, ret,
          lastStats, loadFailed, statsCalls, emptyPasses, statsRaised, firstIds,
          threads, staleIds>>

-----------------------------------------------------------------------------
(* Bounds of the model *)

\* recommend_* calls between two loads (the cap of the rotation counter)
MaxCounter == 4

\* random.shuffle is every permutation of a list of at most this many
\* elements; of a longer list it is every rotation and every reversed rotation
ShuffleExact == 3

-----------------------------------------------------------------------------
(* Python values *)

None == -1
Missing == -2

\* dict.get(key, default)
Get(d, key, default) == IF d[key] = Missing THEN default ELSE d[key]

\* bool(x) of a number or None
Truthy(x) == x # None /\ x # Missing /\ x # 0

Abs(x) == IF x < 0 THEN -x ELSE x
Max(a, b) == IF a >= b THEN a ELSE b
Min(a, b) == IF a <= b THEN a ELSE b

RECURSIVE GCD(_, _)
GCD(a, b) == IF b = 0 THEN a ELSE GCD(b, a % b)

\* the rational n/d, d > 0, in lowest terms
Rat(n, d) == LET g == GCD(Abs(n), d) IN <<n \div g, d \div g>>
RZero == <<0, 1>>
ROne == <<1, 1>>
RAdd(x, y) ==
    LET g == GCD(x[2], y[2])
    IN  Rat(x[1] * (y[2] \div g) + y[1] * (x[2] \div g), (x[2] \div g) * y[2])
RMul(x, y) == Rat(x[1] * y[1], x[2] * y[2])
RSub(x, y) == RAdd(x, <<-y[1], y[2]>>)
\* x > y
RGt(x, y) == RSub(x, y)[1] > 0

\* s[1..n], as s[:n] does
Take(s, n) == SubSeq(s, 1, Min(n, Len(s)))

\* s[i:] + s[:i] for 0 <= i < len(s)
Rotate(s, i) == SubSeq(s, i + 1, Len(s)) \o SubSeq(s, 1, i)

Reverse(s) == [i \in 1..Len(s) |-> s[Len(s) + 1 - i]]

Range(s) == {s[i] : i \in 1..Len(s)}

ListPermutations(s) ==
    {[i \in 1..Len(s) |-> s[f[i]]] :
        f \in {g \in [1..Len(s) -> 1..Len(s)] : \A i, j \in 1..Len(s) : g[i] = g[j] => i = j}}

\* the outcomes of random.shuffle(s)
Shuffle(s) ==
    IF Len(s) <= ShuffleExact
    THEN ListPermutations(s)
    ELSE {Rotate(s, i) : i \in 0..(Len(s) - 1)} \cup {Reverse(Rotate(s, i)) : i \in 0..(Len(s) - 1)}

\* key(x) > key(y) for the sort keys of the source: a float (a rational
\* here) when isRat, an int otherwise
KeyGt(x, y, key, isRat) == IF isRat THEN RGt(x[key], y[key]) ELSE x[key] > y[key]

RECURSIVE InsertDesc(_, _, _, _)
InsertDesc(sorted, x, key, isRat) ==
    IF sorted = <<>> THEN <<x>>
    ELSE IF KeyGt(x, Head(sorted), key, isRat) THEN <<x>> \o sorted
    ELSE <<Head(sorted)>> \o InsertDesc(Tail(sorted), x, key, isRat)

RECURSIVE SortDescFrom(_, _, _, _)
SortDescFrom(s, i, key, isRat) ==
    IF i = 0 THEN <<>>
    ELSE InsertDesc(SortDescFrom(s, i - 1, key, isRat), s[i], key, isRat)

\* list.sort(key=lambda x: x[key], reverse=True) and sorted(...): descending
\* and stable (elements with equal keys keep their original order)
SortDesc(s, key, isRat) == SortDescFrom(s, Len(s), key, isRat)

-----------------------------------------------------------------------------
(* _calculate_similarity *)

\* 1 - min(|a - b| / m, 1) for m > 0
PartialSim(a, b, m) ==
    IF Abs(a - b) >= m THEN RZero ELSE Rat(m - Abs(a - b), m)

\* `x > 0` of a number or None: "yes", "no", "raise" (None > 0 is a TypeError)
Positive(x) == IF x = None THEN "raise" ELSE IF x > 0 THEN "yes" ELSE "no"

\* `a > 0 and b > 0`: b is not looked at unless a > 0
BothPositive(a, b) == IF Positive(a) = "yes" THEN Positive(b) ELSE Positive(a)

cup_letters == <<"A", "B", "C", "D", "E", "F", "G", "H", "I", "J", "K">>

\* cup_letters.index(c), 0-based; -1 stands for the ValueError
CupIndex(c) ==
    IF \E i \in 1..Len(cup_letters) : cup_letters[i] = c
    THEN (CHOOSE i \in 1..Len(cup_letters) : cup_letters[i] = c) - 1
    ELSE -1

\* lines 53-62: the weights
Weight(attr) ==
    CASE attr = "cup_to_bmi" -> Rat(3, 10)
      [] attr = "o_counter" -> Rat(2, 10)
      [] attr = "scene_count" -> Rat(1, 10)
      [] attr = "band_size" -> Rat(2, 10)
      [] attr = "cup_letter" -> Rat(2, 10)
      [] attr = "volume" -> Rat(3, 10)
      [] attr = "height" -> Rat(1, 10)
      [] attr = "weight" -> Rat(1, 10)

\* CupToBmiOf without the test of line 65 on bmi
CupToBmiOfAnyBmi(bmi_a, bmi_b, a, b) ==
    IF Truthy(a) /\ Truthy(b)
    THEN RMul(PartialSim(a, b, Max(a, b)), Weight("cup_to_bmi"))
    ELSE RZero

\* lines 65-71: the term is added when bmi and cup_to_bmi are truthy on both sides
CupToBmiOf(bmi_a, bmi_b, a, b) ==
    IF Truthy(bmi_a) /\ Truthy(bmi_b) /\ Truthy(a) /\ Truthy(b)
    THEN RMul(PartialSim(a, b, Max(a, b)), Weight("cup_to_bmi"))
    ELSE RZero

CupToBmiTerm(base, target) ==
    CupToBmiOf(Get(base, "bmi", None), Get(target, "bmi", None),
               Get(base, "cup_to_bmi", 0), Get(target, "cup_to_bmi", 0))

\* a term guarded by `a > 0 and b > 0`, on the scale m
GuardedTerm(a, b, m, attr) ==
    [exc |-> BothPositive(a, b) = "raise",
     val |-> IF BothPositive(a, b) = "yes" THEN RMul(PartialSim(a, b, m), Weight(attr)) ELSE RZero]

\* lines 74-85, 111-115: the ratio terms, on the scale max(a, b)
RatioTerm(base, target, key, attr) ==
    GuardedTerm(Get(base, key, 0), Get(target, key, 0),
                Max(Get(base, key, 0), Get(target, key, 0)), attr)

\* lines 118-129: the terms on a fixed scale of 30
ScaleTerm(base, target, key, attr) ==
    GuardedTerm(Get(base, key, 0), Get(target, key, 0), 30, attr)

\* lines 88-95: band sizes are numbers here, so int() succeeds
BandOf(a, b) ==
    IF Truthy(a) /\ Truthy(b)
    THEN RMul(PartialSim(a, b, Max(a, b)), Weight("band_size"))
    ELSE RZero

BandTerm(base, target) == BandOf(Get(base, "band_size", None), Get(target, "band_size", None))

\* lines 98-108: a letter outside the alphabet raises ValueError, which is caught
CupOf(a, b) ==
    IF a # "" /\ b # "" /\ CupIndex(a) >= 0 /\ CupIndex(b) >= 0
    THEN RMul(PartialSim(CupIndex(a), CupIndex(b), Len(cup_letters)), Weight("cup_letter"))
    ELSE RZero

CupTerm(base, target) == CupOf(base.cup_letter, target.cup_letter)

\* [exc, val] of the eight terms: exc when a comparison with None raised
\* TypeError (it leaves _calculate_similarity, whatever was summed before)
SumTerms(cb, o, s, band, cup, v, h, w) ==
    [exc |-> o.exc \/ s.exc \/ v.exc \/ h.exc \/ w.exc,
     val |-> IF o.exc \/ s.exc \/ v.exc \/ h.exc \/ w.exc THEN RZero
             ELSE RAdd(cb, RAdd(o.val, RAdd(s.val, RAdd(band, RAdd(cup,
                  RAdd(v.val, RAdd(h.val, w.val)))))))]

\* lines 47-131
calculate_similarity(base, target) ==
    SumTerms(CupToBmiTerm(base, target),
             RatioTerm(base, target, "o_counter", "o_counter"),
             RatioTerm(base, target, "scene_count", "scene_count"),
             BandTerm(base, target),
             CupTerm(base, target),
             RatioTerm(base, target, "volume_cc", "volume"),
             ScaleTerm(base, target, "height_cm", "height"),
             ScaleTerm(base, target, "weight", "weight"))

-----------------------------------------------------------------------------
(* recommend_performers: the scoring pass (lines 228-403) *)

\* rotated_recommendations[:10] and recommendations[:10]
Window == 10
\* similar_performers[:5]
TopSimilar == 5
\* sorted_cup_stats[:3]
TopCups == 3

\* dict[key] = value on an insertion-ordered dict: a known key keeps its place
DictPut(cache, rec) ==
    IF \E i \in 1..Len(cache) : cache[i].id = rec.id
    THEN [i \in 1..Len(cache) |-> IF cache[i].id = rec.id THEN rec ELSE cache[i]]
    ELSE Append(cache, rec)

\* line 253: skip the base performer itself
IsSelf(base, target) == target.id = base.id

\* EngagedO with the o_counter filter lost
EngagedONever(target) == FALSE

\* line 257: only performers with o_counter = 0 are recommended
EngagedO(target) == Get(target, "o_counter", 0) # 0

\* PassesOThreshold with a threshold of 0.4
PassesOThresholdLow(sim) == RGt(sim, Rat(4, 10))

\* line 263
PassesOThreshold(sim) == RGt(sim, Rat(5, 10))

\* lines 263-272: scan is [exc, list]; exc when _calculate_similarity raised
ScanOAdd(scan, target, sim) ==
    IF sim.exc THEN [scan EXCEPT !.exc = TRUE]
    ELSE IF PassesOThreshold(sim.val)
    THEN [scan EXCEPT !.list = Append(@, [id |-> target.id, name |-> target.name,
                                           o_counter |-> Get(target, "o_counter", 0),
                                           similarity |-> sim.val])]
    ELSE scan

\* lines 252-272, one turn of the loop; an exception ends the loop
ScanOStep(scan, base, target) ==
    IF scan.exc THEN scan
    ELSE IF IsSelf(base, target) THEN scan
    ELSE IF EngagedO(target) THEN scan
    ELSE ScanOAdd(scan, target, calculate_similarity(base, target))

\* lines 251-272 over data[1..n]
RECURSIVE ScanO(_, _, _)
ScanO(base, data, n) ==
    IF n = 0 THEN [exc |-> FALSE, list |-> <<>>]
    ELSE ScanOStep(ScanO(base, data, n - 1), base, data[n])

\* ORecord without the sort of line 275
ORecordUnsorted(base, similar) ==
    [id |-> "o_counter_" \o base.id,
     seed |-> base.id,
     performer |-> [name |-> base.name, o_counter |-> Get(base, "o_counter", 0)],
     similar_performers |-> Take(similar, TopSimilar),
     recommendation_type |-> "o_counter_similarity"]

\* lines 278-289
ORecord(base, similar) ==
    [id |-> "o_counter_" \o base.id,
     seed |-> base.id,
     performer |-> [name |-> base.name, o_counter |-> Get(base, "o_counter", 0)],
     similar_performers |-> Take(SortDesc(similar, "similarity", TRUE), TopSimilar),
     recommendation_type |-> "o_counter_similarity"]

\* lines 291-293, 347-349, 396-398: the record goes into the cache at once
Keep(acc, rec) ==
    [cache |-> DictPut(acc.cache, rec), recs |-> Append(acc.recs, rec), exc |-> FALSE]

\* lines 274-293: acc is [cache, recs, exc]; an exception ends the pass and
\* leaves what was written so far
StrategyOKeep(acc, base, scan) ==
    IF scan.exc THEN [acc EXCEPT !.exc = TRUE]
    ELSE IF scan.list # <<>> THEN Keep(acc, ORecord(base, scan.list))
    ELSE acc

\* lines 247-293, one turn of the loop
StrategyOStep(acc, base, data) ==
    IF acc.exc THEN acc ELSE StrategyOKeep(acc, base, ScanO(base, data, Len(data)))

\* lines 247-293 over seeds[1..n]
RECURSIVE StrategyO(_, _, _, _)
StrategyO(acc, seeds, n, data) ==
    IF n = 0 THEN acc
    ELSE StrategyOStep(StrategyO(acc, seeds, n - 1, data), seeds[n], data)

\* line 316: max(0, 1 - volume_diff / max(target_volume, performer_volume))
VolumeSimilarity(pv, tv) == PartialSim(pv, tv, Max(tv, pv))

\* line 318
PassesVolumeThreshold(sim) == RGt(sim, Rat(7, 10))

\* line 308: skip performers with o_counter > 0
EngagedVolume(performer) == Positive(Get(performer, "o_counter", 0))

\* lines 311-327
ScanVolumeAdd(scan, performer, pv, tv) ==
    IF Positive(pv) = "raise" THEN [scan EXCEPT !.exc = TRUE]
    ELSE IF Positive(pv) = "yes" /\ PassesVolumeThreshold(VolumeSimilarity(pv, tv))
    THEN [scan EXCEPT !.list = Append(@, [id |-> performer.id, name |-> performer.name,
                                           o_counter |-> 0,
                                           similarity |-> VolumeSimilarity(pv, tv)])]
    ELSE scan

\* lines 307-327, one turn of the loop; an exception ends the loop
ScanVolumeStep(scan, seed, performer) ==
    IF scan.exc THEN scan
    ELSE IF EngagedVolume(performer) = "raise" THEN [scan EXCEPT !.exc = TRUE]
    ELSE IF EngagedVolume(performer) = "yes" THEN scan
    ELSE ScanVolumeAdd(scan, performer, Get(performer, "volume_cc", 0), Get(seed, "volume_cc", 0))

\* lines 306-327 over data[1..n]
RECURSIVE ScanVolume(_, _, _)
ScanVolume(seed, data, n) ==
    IF n = 0 THEN [exc |-> FALSE, list |-> <<>>]
    ELSE ScanVolumeStep(ScanVolume(seed, data, n - 1), seed, data[n])

\* lines 333-345
VolumeRecord(seed, similar) ==
    [id |-> "volume_" \o seed.id,
     seed |-> seed.id,
     performer |-> [name |-> seed.name, o_counter |-> Get(seed, "o_counter", 0)],
     similar_performers |-> Take(SortDesc(similar, "similarity", TRUE), TopSimilar),
     recommendation_type |-> "volume_similarity"]

\* lines 329-349
StrategyVolumeKeep(acc, seed, scan) ==
    IF scan.exc THEN [acc EXCEPT !.exc = TRUE]
    ELSE IF scan.list # <<>> THEN Keep(acc, VolumeRecord(seed, scan.list))
    ELSE acc

\* lines 298-302: "scan" the snapshot, "skip" the seed, or "raise"
SeedGuard(o_counter, volume_cc) ==
    IF Positive(o_counter) = "raise" THEN "raise"
    ELSE IF Positive(o_counter) = "no" THEN "skip"
    ELSE IF Positive(volume_cc) = "raise" THEN "raise"
    ELSE IF Positive(volume_cc) = "no" THEN "skip"
    ELSE "scan"

\* lines 298-349, one turn of the loop
StrategyVolumeStep(acc, seed, data) ==
    IF acc.exc THEN acc
    ELSE IF SeedGuard(Get(seed, "o_counter", 0), Get(seed, "volume_cc", 0)) = "raise"
    THEN [acc EXCEPT !.exc = TRUE]
    ELSE IF SeedGuard(Get(seed, "o_counter", 0), Get(seed, "volume_cc", 0)) = "skip"
    THEN acc
    ELSE StrategyVolumeKeep(acc, seed, ScanVolume(seed, data, Len(data)))

\* lines 297-349 over seeds[1..n]
RECURSIVE StrategyVolume(_, _, _, _)
StrategyVolume(acc, seeds, n, data) ==
    IF n = 0 THEN acc
    ELSE StrategyVolumeStep(StrategyVolume(acc, seeds, n - 1, data), seeds[n], data)

\* lines 367-368
IsCupCandidate(performer, cup_letter) ==
    performer.cup_letter = cup_letter /\ Get(performer, "o_counter", 0) = 0

\* lines 370-377
CupEntry(performer) ==
    [id |-> performer.id, name |-> performer.name, o_counter |-> 0, similarity |-> Rat(8, 10)]

\* lines 366-377 over data[1..n]
RECURSIVE CupCandidates(_, _, _)
CupCandidates(cup_letter, data, n) ==
    IF n = 0 THEN <<>>
    ELSE CupCandidates(cup_letter, data, n - 1)
         \o (IF IsCupCandidate(data[n], cup_letter) THEN <<CupEntry(data[n])>> ELSE <<>>)

\* lines 383-394, of the candidates as shuffled
CupRecord(cup_stat, shuffled) ==
    [id |-> "cup_" \o cup_stat.cup_letter,
     seed |-> "",
     performer |-> [name |-> "Cup " \o cup_stat.cup_letter, o_counter |-> cup_stat.avg_o_count],
     similar_performers |-> Take(shuffled, TopSimilar),
     recommendation_type |-> "cup_size_popularity"]

\* lines 362-398: the outcomes, one for each way random.shuffle orders the candidates
StrategyCupKeep(accs, cup_stat, similar) ==
    IF cup_stat.cup_letter # "" /\ cup_stat.avg_o_count > 0 /\ similar # <<>>
    THEN {Keep(acc, CupRecord(cup_stat, shuffled)) : acc \in accs, shuffled \in Shuffle(similar)}
    ELSE accs

\* lines 359-398, one turn of the loop
StrategyCupStep(accs, cup_stat, data) ==
    StrategyCupKeep(accs, cup_stat, CupCandidates(cup_stat.cup_letter, data, Len(data)))

\* lines 358-398 over cup_stats[1..n]
RECURSIVE StrategyCup(_, _, _, _)
StrategyCup(accs, cup_stats, n, data) ==
    IF n = 0 THEN accs
    ELSE StrategyCupStep(StrategyCup(accs, cup_stats, n - 1, data), cup_stats[n], data)

\* lines 351-398: nothing more is done after an exception
CupPhase(acc, top_cups, data) ==
    IF acc.exc THEN {acc} ELSE StrategyCup({acc}, top_cups, Len(top_cups), data)

\* VolumePhase gated by one more field of the stats dict
VolumePhaseByOther(acc, stats, data) ==
    IF /\ ~acc.exc
       /\ stats.top_volume_performers # <<>>
       /\ ~stats.cup_df_empty
       /\ ("other_stats" \notin DOMAIN stats \/ stats.other_stats # <<>>)
    THEN StrategyVolume(acc, stats.top_volume_performers, Len(stats.top_volume_performers), data)
    ELSE acc

\* lines 295-349
VolumePhase(acc, stats, data) ==
    IF ~acc.exc /\ stats.top_volume_performers # <<>> /\ ~stats.cup_df_empty
    THEN StrategyVolume(acc, stats.top_volume_performers, Len(stats.top_volume_performers), data)
    ELSE acc

\* lines 244-293
OPhase(cache, stats, data) ==
    StrategyO([cache |-> cache, recs |-> <<>>, exc |-> FALSE],
              stats.top_o_counter_performers, Len(stats.top_o_counter_performers), data)

\* lines 232-398 after generate_all_stats returned stats: the outcomes
\* [cache, recs, exc] of the three strategies run in order on an empty
\* `recommendations` list and the cache as it is
ScoringPass(cache, stats, data) ==
    CupPhase(VolumePhase(OPhase(cache, stats, data), stats, data),
             Take(SortDesc(stats.cup_letter_o_stats, "avg_o_count", FALSE), TopCups),
             data)

-----------------------------------------------------------------------------
(* _get_popular_tags, _calculate_tag_similarity, recommend_scenes (lines 432-524) *)

\* Counter[key] += n on an insertion-ordered Counter, a sequence of [tag, count]
CounterAdd(counter, tag, n) ==
    IF \E i \in 1..Len(counter) : counter[i].tag = tag
    THEN [i \in 1..Len(counter) |->
             IF counter[i].tag = tag THEN [counter[i] EXCEPT !.count = @ + n] ELSE counter[i]]
    ELSE Append(counter, [tag |-> tag, count |-> n])

\* the tags tags[1..n] added to the counter with weight w; skipEmpty drops the name ''
RECURSIVE CountTags(_, _, _, _, _)
CountTags(counter, tags, n, w, skipEmpty) ==
    IF n = 0 THEN counter
    ELSE LET before == CountTags(counter, tags, n - 1, w, skipEmpty) IN
         IF skipEmpty /\ tags[n] = "" THEN before ELSE CounterAdd(before, tags[n], w)

\* Counter.most_common(n): by count, descending, ties in insertion order
MostCommon(counter, n) ==
    LET top == Take(SortDesc(counter, "count", FALSE), n)
    IN  [i \in 1..Len(top) |-> top[i].tag]

\* _get_popular_tags with `tag_counter[tag_name] += 1`: tags counted, not weighted
RECURSIVE OccurrenceTagCounter(_, _, _)
OccurrenceTagCounter(scenes, i, min_o_counter) ==
    IF i = 0 THEN <<>>
    ELSE IF scenes[i].o_counter >= min_o_counter
         THEN CountTags(OccurrenceTagCounter(scenes, i - 1, min_o_counter),
                        scenes[i].tags, Len(scenes[i].tags), 1, TRUE)
         ELSE OccurrenceTagCounter(scenes, i - 1, min_o_counter)

get_popular_tags_by_occurrence(scenes, min_o_counter, top_n) ==
    MostCommon(OccurrenceTagCounter(scenes, Len(scenes), min_o_counter), top_n)

\* lines 145-158
RECURSIVE WeightedTagCounter(_, _, _)
WeightedTagCounter(scenes, i, min_o_counter) ==
    IF i = 0 THEN <<>>
    ELSE LET before == WeightedTagCounter(scenes, i - 1, min_o_counter)
             scene == scenes[i]
         IN  IF scene.o_counter >= min_o_counter
             THEN CountTags(before, scene.tags, Len(scene.tags), scene.o_counter, TRUE)
             ELSE before

get_popular_tags(scenes, min_o_counter, top_n) ==
    MostCommon(WeightedTagCounter(scenes, Len(scenes), min_o_counter), top_n)

\* lines 452-460: the tags of the scenes with o_counter >= 3, counted by occurrence
RECURSIVE HighOCounterTagCounter(_, _)
HighOCounterTagCounter(scenes, i) ==
    IF i = 0 THEN <<>>
    ELSE LET before == HighOCounterTagCounter(scenes, i - 1)
             scene == scenes[i]
         IN  IF scene.o_counter >= 3
             THEN CountTags(before, scene.tags, Len(scene.tags), 1, FALSE)
             ELSE before

most_common_tags(scenes) == MostCommon(HighOCounterTagCounter(scenes, Len(scenes)), 20)

\* _calculate_tag_similarity on the lists as they are, without set(): a
\* repeated tag counts once per occurrence
calculate_tag_similarity_on_lists(tags1, tags2) ==
    IF tags1 = <<>> \/ tags2 = <<>> THEN RZero
    ELSE Rat(Cardinality({i \in 1..Len(tags1) : tags1[i] \in Range(tags2)}),
             Cardinality(Range(tags1) \cup Range(tags2)))

\* lines 171-184
calculate_tag_similarity(tags1, tags2) ==
    IF tags1 = <<>> \/ tags2 = <<>> THEN RZero
    ELSE LET set1 == Range(tags1)
             set2 == Range(tags2)
         IN  Rat(Cardinality(set1 \cap set2), Cardinality(set1 \cup set2))

\* the categories, in the order the dict is built (lines 434-439)
Categories == <<"favorite_performer_scenes", "non_favorite_performer_scenes",
                "recommended_performer_scenes", "similar_tag_scenes">>

\* SceneRecommendation with the popular tags taken from the scenes with o_counter >= 1
SceneRecommendationFromOne(scene, scenes) ==
    [id |-> scene.id,
     title |-> scene.title,
     performers |-> [i \in 1..Len(scene.performers) |-> scene.performers[i].name],
     tags |-> scene.tags,
     tag_similarity |-> calculate_tag_similarity(scene.tags, most_common_tags(scenes)),
     similarity |-> Cardinality(Range(scene.tags) \cap Range(get_popular_tags(scenes, 1, 20)))]

\* lines 485-492, with popular_tags of line 445
SceneRecommendation(scene, scenes) ==
    [id |-> scene.id,
     title |-> scene.title,
     performers |-> [i \in 1..Len(scene.performers) |-> scene.performers[i].name],
     tags |-> scene.tags,
     tag_similarity |-> calculate_tag_similarity(scene.tags, most_common_tags(scenes)),
     similarity |-> Cardinality(Range(scene.tags) \cap Range(get_popular_tags(scenes, 3, 20)))]

\* CategoryOf with the top-performer test ahead of the favorite test
CategoryOfTopFirst(scene, scenes, stats) ==
    IF \E i \in 1..Len(scene.performers) :
          \E k \in 1..Len(stats.top_o_counter_performers) :
              scene.performers[i].name = stats.top_o_counter_performers[k].name
    THEN "recommended_performer_scenes"
    ELSE IF \E i \in 1..Len(scene.performers) : scene.performers[i].favorite
    THEN "favorite_performer_scenes"
    ELSE IF RGt(calculate_tag_similarity(scene.tags, most_common_tags(scenes)), Rat(3, 10))
    THEN "similar_tag_scenes"
    ELSE "non_favorite_performer_scenes"

\* lines 476-502
CategoryOf(scene, scenes, stats) ==
    LET top_performer_names ==
            {stats.top_o_counter_performers[i].name : i \in 1..Len(stats.top_o_counter_performers)}
    IN  IF \E i \in 1..Len(scene.performers) : scene.performers[i].favorite
        THEN "favorite_performer_scenes"
        ELSE IF \E i \in 1..Len(scene.performers) : scene.performers[i].name \in top_performer_names
        THEN "recommended_performer_scenes"
        ELSE IF RGt(calculate_tag_similarity(scene.tags, most_common_tags(scenes)), Rat(3, 10))
        THEN "similar_tag_scenes"
        ELSE "non_favorite_performer_scenes"

\* Collect with `if` where the code has `elif`/`else`: every unseen scene in every category
RECURSIVE CollectUncategorised(_, _, _, _)
CollectUncategorised(category, scenes, i, stats) ==
    IF i = 0 THEN <<>>
    ELSE IF scenes[i].o_counter = 0
         THEN Append(CollectUncategorised(category, scenes, i - 1, stats),
                     SceneRecommendation(scenes[i], scenes))
         ELSE CollectUncategorised(category, scenes, i - 1, stats)

\* Collect without the o_counter test of lines 465-466
RECURSIVE CollectSeenToo(_, _, _, _)
CollectSeenToo(category, scenes, i, stats) ==
    IF i = 0 THEN <<>>
    ELSE IF CategoryOf(scenes[i], scenes, stats) = category
         THEN Append(CollectSeenToo(category, scenes, i - 1, stats),
                     SceneRecommendation(scenes[i], scenes))
         ELSE CollectSeenToo(category, scenes, i - 1, stats)

\* lines 463-502: the recommendations of one category, in scene order
RECURSIVE Collect(_, _, _, _)
Collect(category, scenes, i, stats) ==
    IF i = 0 THEN <<>>
    ELSE LET scene == scenes[i] IN
         IF scene.o_counter = 0 /\ CategoryOf(scene, scenes, stats) = category
         THEN Append(Collect(category, scenes, i - 1, stats), SceneRecommendation(scene, scenes))
         ELSE Collect(category, scenes, i - 1, stats)

\* SortAndCap without the slices [:15] and [:10]
SortAndCapUncut(category, list) ==
    IF category = "similar_tag_scenes"
    THEN SortDesc(list, "tag_similarity", TRUE)
    ELSE SortDesc(list, "similarity", FALSE)

\* lines 505-519
SortAndCap(category, list) ==
    IF category = "similar_tag_scenes"
    THEN Take(SortDesc(list, "tag_similarity", TRUE), 15)
    ELSE Take(SortDesc(list, "similarity", FALSE), 10)

\* lines 434-519: the dict, a sequence of [category, scenes]
ScenePass(scenes, stats) ==
    [c \in 1..Len(Categories) |->
        [category |-> Categories[c],
         scenes |-> SortAndCap(Categories[c], Collect(Categories[c], scenes, Len(scenes), stats))]]

-----------------------------------------------------------------------------
(* The collaborators: what get_performers, get_scenes and generate_all_stats return *)

\* a performer dict with the keys a measurement-less record has
Performer(id, name, o_counter, band_size, cup_letter, volume_cc) ==
    [id |-> id, name |-> name, bmi |-> Missing, cup_to_bmi |-> Missing,
     o_counter |-> o_counter, scene_count |-> Missing, band_size |-> band_size,
     cup_letter |-> cup_letter, volume_cc |-> volume_cc,
     height_cm |-> Missing, weight |-> Missing]

\* a performer dict with every attribute the scorer reads (cup_to_bmi in thousandths)
FullPerformer(id, name, o_counter, cup_to_bmi, scene_count, band_size, cup_letter, volume_cc, height_cm, weight) ==
    [id |-> id, name |-> name, bmi |-> 22, cup_to_bmi |-> cup_to_bmi,
     o_counter |-> o_counter, scene_count |-> scene_count, band_size |-> band_size,
     cup_letter |-> cup_letter, volume_cc |-> volume_cc,
     height_cm |-> height_cm, weight |-> weight]

Anna == Performer("1", "Anna", 5, 34, "C", 400)
\* Anna as a snapshot taken before her first o_counter saw her
AnnaUnseen == Performer("1", "Anna", 0, 34, "C", 400)
Bea == Performer("2", "Bea", 0, 34, "C", 420)
Cleo == Performer("3", "Cleo", 0, 30, "A", 150)
\* an unseen performer a little less like Anna than Bea is
Dee == Performer("4", "Dee", 0, 34, "C", 380)
Eve == FullPerformer("5", "Eve", 3, 150, 10, 28, "F", 800, 165, 55)
Fay == FullPerformer("6", "Fay", 0, 120, 8, 28, "F", 820, 170, 60)
\* a performer whose o_counter is present and null
Nul == Performer("7", "Nul", None, 28, "F", 800)
\* further top performers with Anna's measurements
Top(n) == Performer("1" \o ToString(n), "Top" \o ToString(n), 5, 34, "C", 400)

\* further unseen performers with Bea's measurements
Unseen(n) == Performer("2" \o ToString(n), "Unseen" \o ToString(n), 0, 34, "C", 420)

Scene(id, o_counter, performers, tags) ==
    [id |-> id, title |-> "Scene " \o id, o_counter |-> o_counter,
     performers |-> performers, tags |-> tags]

Cast(name, favorite) == [name |-> name, favorite |-> favorite]

ScenesA ==
    << Scene("s1", 5, <<Cast("Anna", FALSE)>>, <<"x", "y">>),
       Scene("s2", 1, <<Cast("Cleo", FALSE)>>, <<"x">>),
       Scene("s3", 0, <<Cast("Bea", TRUE)>>, <<"x">>),
       Scene("s4", 0, <<Cast("Anna", FALSE), Cast("Cleo", FALSE)>>, <<"x", "y">>),
       Scene("s5", 0, <<Cast("Cleo", FALSE)>>, <<"x">>),
       Scene("s6", 0, <<Cast("Cleo", FALSE)>>, <<"z">>) >>

ScenesB ==
    << Scene("s7", 3, <<Cast("Eve", FALSE)>>, <<"x">>),
       Scene("s8", 0, <<Cast("Fay", FALSE)>>, <<"x", "y", "z">>),
       Scene("s9", 0, <<>>, <<>>) >>

\* unseen scenes that share no performer and no tag with the seen ones
Plain(n) == Scene("p" \o ToString(n), 0, <<Cast("Zoe", FALSE)>>, <<"z">>)

\* more unseen scenes of one category than a category keeps, the last of
\* them with a popular tag, one with a favorite who is a top performer too,
\* and a scene seen twice that shares its tag with the plain ones
ScenesC ==
    << Scene("c1", 5, <<Cast("Anna", FALSE)>>, <<"x", "y">>) >>
    \o [n \in 1..10 |-> Plain(n)]
    \o << Scene("c12", 0, <<Cast("Zoe", FALSE)>>, <<"x", "a", "b", "c">>),
          Scene("c13", 0, <<Cast("Anna", TRUE)>>, <<"x">>),
          Scene("c14", 2, <<Cast("Zoe", FALSE)>>, <<"z">>) >>

\* the snapshots get_performers / get_scenes can return
Snapshots ==
    { [performers |-> <<Anna, Bea, Cleo>>, scenes |-> ScenesA],
      [performers |-> <<AnnaUnseen, Bea>>, scenes |-> ScenesB],
      [performers |-> <<Eve, Fay, Nul>>, scenes |-> ScenesB],
      [performers |-> <<Anna>>, scenes |-> <<>>],
      [performers |-> <<Anna, Dee, Bea, Unseen(1), Unseen(2), Unseen(3), Unseen(4), Unseen(5)>>,
       scenes |-> <<>>],
      [performers |-> <<Anna>>, scenes |-> ScenesC] }

CupStat(cup_letter, avg_o_count) == [cup_letter |-> cup_letter, avg_o_count |-> avg_o_count]

\* the fields of the stats dict that are read (lines 233-241, 352, 448)
Stats(top_o, top_volume, cup_df_empty, cup_letter_o_stats) ==
    [top_o_counter_performers |-> top_o, top_volume_performers |-> top_volume,
     cup_df_empty |-> cup_df_empty, cup_letter_o_stats |-> cup_letter_o_stats]

\* the dicts generate_all_stats can return
StatsPayloads ==
    { Stats(<<Anna>>, <<Anna>>, FALSE, <<CupStat("D", 2), CupStat("C", 5)>>),
      Stats(<<Anna, Top(1), Top(2), Top(3), Top(4)>>, <<Anna, Top(1), Top(2), Top(3), Top(4)>>,
            FALSE, <<CupStat("C", 5)>>),
      Stats(<<Eve, Nul>>, <<Eve>>, FALSE, <<CupStat("F", 3), CupStat("K", 0)>>),
      Stats(<<Anna, Anna>>, <<>>, TRUE, <<>>),
      Stats(<<>>, <<>>, TRUE, <<>>) }

-----------------------------------------------------------------------------
(* The methods *)

LoadOutcomes == {"ok", "get_performers_raised", "get_scenes_raised"}

\* load_data with an except clause that empties scenes_data only
load_data_keeps_performers(outcome, snapshot) ==
    IF outcome = "ok"
    THEN [performers |-> snapshot.performers, scenes |-> snapshot.scenes, failed |-> FALSE]
    ELSE IF outcome = "get_scenes_raised"
    THEN [performers |-> snapshot.performers, scenes |-> <<>>, failed |-> TRUE]
    ELSE [performers |-> <<>>, scenes |-> <<>>, failed |-> TRUE]

\* _load_data (lines 28-37): outcome is "ok", or the call that raised; the
\* except clause empties both lists
load_data(outcome, snapshot) ==
    IF outcome = "ok"
    THEN [performers |-> snapshot.performers, scenes |-> snapshot.scenes, failed |-> FALSE]
    ELSE [performers |-> <<>>, scenes |-> <<>>, failed |-> TRUE]

\* reload_data that forgets to clear the performer cache
reload_data_keeps_cache(self, loaded) ==
    [performers_data |-> loaded.performers,
     scenes_data |-> loaded.scenes,
     performer_recommendation_cache |-> self.performer_recommendation_cache,
     scene_recommendation_cache |-> <<>>,
     recommendation_counter |-> 0]

\* reload_data (lines 39-45) on the object `self`, given what _load_data loaded
reload_data(self, loaded) ==
    [performers_data |-> loaded.performers,
     scenes_data |-> loaded.scenes,
     performer_recommendation_cache |-> <<>>,
     scene_recommendation_cache |-> <<>>,
     recommendation_counter |-> 0]

\* CacheHit that never finds the cache filled
CacheHitNever(cache) == FALSE

\* line 215 and line 415: `if cache:`
CacheHit(cache) == cache # <<>>

\* ServePerformers without `+ cached_recommendations[:rotation_index]`
ServePerformersNoWrap(cache, counter) ==
    Take(SubSeq(cache, (counter % Len(cache)) + 1, Len(cache)), Window)

\* ServePerformers without the slice [:10]
ServePerformersUncut(cache, counter) == Rotate(cache, counter % Len(cache))

\* ServePerformers with the rotation index taken from the counter before line 212 raised it
ServePerformersBefore(cache, counter) ==
    Take(Rotate(cache, (counter - 1) % Len(cache)), Window)

\* lines 217-222
ServePerformers(cache, counter) ==
    Take(Rotate(cache, counter % Len(cache)), Window)

\* lines 400-403, or 405-407 after an exception: what a pass returns and
\* leaves in the cache
PassResult(out) ==
    IF out.exc
    THEN {[cache |-> out.cache, ret |-> <<>>, stats |-> "returned"]}
    ELSE {[cache |-> out.cache, ret |-> Take(shuffled, Window), stats |-> "returned"] :
              shuffled \in Shuffle(out.recs)}

PassResults(cache, stats, data) ==
    UNION {PassResult(out) : out \in ScoringPass(cache, stats, data)}

\* lines 230, 405-407: generate_all_stats raised
PerformerStatsFailure(cache) == [cache |-> cache, ret |-> <<>>, stats |-> "raised"]

\* recommend_performers that rotates the cached dict in place
recommend_performers_in_place(cache, data, counter) ==
    IF cache # <<>>
    THEN {[cache |-> Rotate(cache, counter % Len(cache)),
           ret |-> Take(Rotate(cache, counter % Len(cache)), Window), stats |-> "not_called"]}
    ELSE IF data = <<>>
    THEN {[cache |-> cache, ret |-> <<>>, stats |-> "not_called"]}
    ELSE {[cache |-> cache, ret |-> <<>>, stats |-> "raised"]}
         \cup UNION {PassResults(cache, stats, data) : stats \in StatsPayloads}

\* recommend_performers (lines 209-407) after the counter was raised to
\* `counter`: the outcomes [cache, ret, stats]
recommend_performers(cache, data, counter) ==
    IF CacheHit(cache)
    THEN {[cache |-> cache, ret |-> ServePerformers(cache, counter), stats |-> "not_called"]}
    ELSE IF data = <<>>
    THEN {[cache |-> cache, ret |-> <<>>, stats |-> "not_called"]}
    ELSE {PerformerStatsFailure(cache)}
         \cup UNION {PassResults(cache, stats, data) : stats \in StatsPayloads}

\* ServeCategory with the rotation index taken from the counter before line 412 raised it
ServeCategoryBefore(entry, counter) ==
    IF entry.scenes # <<>>
    THEN [entry EXCEPT !.scenes = Rotate(@, (counter - 1) % Len(@))]
    ELSE entry

\* lines 420-424, one category
ServeCategory(entry, counter) ==
    IF entry.scenes # <<>>
    THEN [entry EXCEPT !.scenes = Rotate(@, counter % Len(@))]
    ELSE entry

\* lines 417-426
ServeScenes(cache, counter) == [c \in 1..Len(cache) |-> ServeCategory(cache[c], counter)]

\* SceneStatsFailure with the empty `recommendations` dict stored before the try
SceneStatsFailureCached(cache) ==
    [cache |-> [c \in 1..Len(Categories) |-> [category |-> Categories[c], scenes |-> <<>>]],
     ret |-> <<>>, stats |-> "raised"]

\* lines 442, 526-528: generate_all_stats raised
SceneStatsFailure(cache) == [cache |-> cache, ret |-> <<>>, stats |-> "raised"]

\* lines 521-524
ScenePassResult(recommendations) ==
    [cache |-> recommendations, ret |-> recommendations, stats |-> "returned"]

\* recommend_scenes (lines 409-528) after the counter was raised to
\* `counter`: the outcomes [cache, ret, stats]
recommend_scenes(cache, scenes, counter) ==
    IF CacheHit(cache)
    THEN {[cache |-> cache, ret |-> ServeScenes(cache, counter), stats |-> "not_called"]}
    ELSE IF scenes = <<>>
    THEN {[cache |-> cache, ret |-> <<>>, stats |-> "not_called"]}
    ELSE {SceneStatsFailure(cache)}
         \cup {ScenePassResult(ScenePass(scenes, stats)) : stats \in StatsPayloads}

\* the set of ids of a list of records
Ids(list) == {list[i].id : i \in 1..Len(list)}

-----------------------------------------------------------------------------
(* The state machine *)

\* the object
Self ==
    [performers_data |-> performers_data,
     scenes_data |-> scenes_data,
     performer_recommendation_cache |-> performer_recommendation_cache,
     scene_recommendation_cache |-> scene_recommendation_cache,
     recommendation_counter |-> recommendation_counter]

\* __init__ (lines 11-26)
Init ==
    \E outcome \in LoadOutcomes, snapshot \in Snapshots :
        /\ performers_data = load_data(outcome, snapshot).performers
        /\ scenes_data = load_data(outcome, snapshot).scenes
        /\ performer_recommendation_cache = <<>>
        /\ scene_recommendation_cache = <<>>
        /\ recommendation_counter = 0
        /\ lastOp = "init"
        /\ ret = <<>>
        /\ lastStats = "not_called"
        /\ loadFailed = load_data(outcome, snapshot).failed
        /\ statsCalls = 0
        /\ emptyPasses = 0
        /\ statsRaised = FALSE
        /\ firstIds = <<>>
        /\ threads = <<>>
        /\ staleIds = {}

\* reload_data (lines 39-45)
ReloadData ==
    \E outcome \in LoadOutcomes, snapshot \in Snapshots :
        /\ performers_data' = reload_data(Self, load_data(outcome, snapshot)).performers_data
        /\ scenes_data' = reload_data(Self, load_data(outcome, snapshot)).scenes_data
        /\ performer_recommendation_cache' =
               reload_data(Self, load_data(outcome, snapshot)).performer_recommendation_cache
        /\ scene_recommendation_cache' =
               reload_data(Self, load_data(outcome, snapshot)).scene_recommendation_cache
        /\ recommendation_counter' =
               reload_data(Self, load_data(outcome, snapshot)).recommendation_counter
        /\ lastOp' = "reload_data"
        /\ ret' = <<>>
        /\ lastStats' = "not_called"
        /\ loadFailed' = load_data(outcome, snapshot).failed
        /\ statsCalls' = 0
        /\ emptyPasses' = 0
        /\ statsRaised' = FALSE
        /\ firstIds' = <<>>
        /\ UNCHANGED <<threads, staleIds>>

\* recommend_performers, the counter going to `counter`; observe says whether
\* the observations that span calls are kept
RecommendPerformersTo(counter, observe) ==
    \E out \in recommend_performers(performer_recommendation_cache, performers_data, counter) :
        /\ recommendation_counter' = counter
        /\ performer_recommendation_cache' = out.cache
        /\ lastOp' = "recommend_performers"
        /\ ret' = out.ret
        /\ lastStats' = out.stats
        /\ statsCalls' = IF observe /\ out.stats # "not_called" THEN statsCalls + 1 ELSE statsCalls
        /\ emptyPasses' = IF observe /\ out.stats # "not_called" /\ out.cache = <<>>
                          THEN emptyPasses + 1 ELSE emptyPasses
        /\ statsRaised' = (statsRaised \/ (observe /\ out.stats = "raised"))
        /\ firstIds' = IF observe /\ firstIds = <<>> THEN <<Ids(out.ret)>> ELSE firstIds
        /\ UNCHANGED <<threads, staleIds>>
        /\ UNCHANGED <<performers_data, scenes_data, scene_recommendation_cache, loadFailed>>

\* recommend_scenes, the counter going to `counter`
RecommendScenesTo(counter, observe) ==
    \E out \in recommend_scenes(scene_recommendation_cache, scenes_data, counter) :
        /\ recommendation_counter' = counter
        /\ scene_recommendation_cache' = out.cache
        /\ lastOp' = "recommend_scenes"
        /\ ret' = out.ret
        /\ lastStats' = out.stats
        /\ statsRaised' = (statsRaised \/ (observe /\ out.stats = "raised"))
        /\ UNCHANGED <<performers_data, scenes_data, performer_recommendation_cache,
                       loadFailed, statsCalls, emptyPasses, firstIds,
                       threads, staleIds>>

\* line 212: self._recommendation_counter += 1
RecommendPerformers ==
    /\ recommendation_counter < MaxCounter
    /\ RecommendPerformersTo(recommendation_counter + 1, TRUE)

\* line 412: self._recommendation_counter += 1
RecommendScenes ==
    /\ recommendation_counter < MaxCounter
    /\ RecommendScenesTo(recommendation_counter + 1, TRUE)

Next == RecommendPerformers \/ RecommendScenes \/ ReloadData

Spec == Init /\ [][Next]_vars

(***************************************************************************)
(* The calls without reload_data, for what holds of an unending sequence   *)
(* of them.  The counter is read only as counter % len(list) of a cached   *)
(* list, so it is kept modulo CounterPeriod, a multiple of the length of   *)
(* every list the caches hold for the snapshots taken here, those with     *)
(* fewer scenes than a category keeps; the observations that span calls    *)
(* are not kept.  The caller calls recommend_performers again and again:   *)
(* once the pool is cached, a call served from it is never put off for     *)
(* ever.                                                                   *)
(***************************************************************************)
CounterPeriod == 2 * 3 * 11

RecommendPerformersLive ==
    RecommendPerformersTo((recommendation_counter + 1) % CounterPeriod, FALSE)

RecommendScenesLive ==
    RecommendScenesTo((recommendation_counter + 1) % CounterPeriod, FALSE)

NextLive == RecommendPerformersLive \/ RecommendScenesLive

\* lines 215-222: the call that finds the pool cached
RecommendPerformersCached ==
    /\ CacheHit(performer_recommendation_cache)
    /\ RecommendPerformersLive

\* __init__ over a snapshot whose scene lists are shorter than a capped category
InitLive == Init /\ Len(scenes_data) < Window

LiveSpec == InitLive /\ [][NextLive]_vars /\ WF_vars(RecommendPerformersCached)

-----------------------------------------------------------------------------
(* _get_popular_tags called on its own, over bounded scene lists *)

\* scenes in self.scenes_data
MaxScenes == 2

\* the o_counter values and the tag-name lists of the scenes
SceneOCounters == {0, 1, 5}
TagLists == {<<>>, <<"x">>, <<"y">>, <<"x", "y">>, <<"x", "x">>, <<"", "y">>}

TaggedScenes(k) ==
    {[i \in 1..k |-> Scene("t" \o ToString(i), f[i].o_counter, <<>>, f[i].tags)] :
        f \in [1..k -> [o_counter : SceneOCounters, tags : TagLists]]}

\* the object after get_scenes returned one of the bounded scene lists
PopularTagsInit ==
    /\ performers_data = <<>>
    /\ scenes_data \in UNION {TaggedScenes(k) : k \in 0..MaxScenes}
    /\ performer_recommendation_cache = <<>>
    /\ scene_recommendation_cache = <<>>
    /\ recommendation_counter = 0
    /\ lastOp = "init"
    /\ ret = <<>>
    /\ lastStats = "not_called"
    /\ loadFailed = FALSE
    /\ statsCalls = 0
    /\ emptyPasses = 0
    /\ statsRaised = FALSE
    /\ firstIds = <<>>
    /\ threads = <<>>
    /\ staleIds = {}

\* the arguments callers pass: the default 1 and the 3 of line 445; top_n
\* below, at and above the number of tags
MinOCounters == {1, 3}
TopNs == {1, 2, 5}

\* _get_popular_tags(min_o_counter, top_n) (lines 133-158)
GetPopularTags ==
    \E min_o_counter \in MinOCounters, top_n \in TopNs :
        /\ lastOp' = "_get_popular_tags"
        /\ ret' = [min_o_counter |-> min_o_counter, top_n |-> top_n,
                   tags |-> get_popular_tags(scenes_data, min_o_counter, top_n)]
        /\ UNCHANGED <<performers_data, scenes_data, performer_recommendation_cache,
                       scene_recommendation_cache, recommendation_counter, lastStats,
                       loadFailed, statsCalls, emptyPasses, statsRaised, firstIds,
                       threads, staleIds>>

PopularTagsSpec == PopularTagsInit /\ [][GetPopularTags]_vars

-----------------------------------------------------------------------------
(* _calculate_tag_similarity called on its own, over bounded tag lists *)

\* tag names in one argument
MaxTags == 2

TagNames == {"a", "b", "x"}

TagArguments == UNION {[1..k -> TagNames] : k \in 0..MaxTags}

\* the object, and a call of _calculate_tag_similarity with its arguments bound
TagSimilarityInit ==
    /\ performers_data = <<>>
    /\ scenes_data = <<>>
    /\ performer_recommendation_cache = <<>>
    /\ scene_recommendation_cache = <<>>
    /\ recommendation_counter = 0
    /\ lastOp = "call _calculate_tag_similarity"
    /\ ret \in [tags1 : TagArguments, tags2 : TagArguments]
    /\ lastStats = "not_called"
    /\ loadFailed = FALSE
    /\ statsCalls = 0
    /\ emptyPasses = 0
    /\ statsRaised = FALSE
    /\ firstIds = <<>>
    /\ threads = <<>>
    /\ staleIds = {}

\* _calculate_tag_similarity(tags1, tags2) (lines 160-184)
CalculateTagSimilarity ==
    /\ lastOp = "call _calculate_tag_similarity"
    /\ lastOp' = "_calculate_tag_similarity"
    /\ ret' = [tags1 |-> ret.tags1, tags2 |-> ret.tags2,
               similarity |-> calculate_tag_similarity(ret.tags1, ret.tags2)]
    /\ UNCHANGED <<performers_data, scenes_data, performer_recommendation_cache,
                   scene_recommendation_cache, recommendation_counter, lastStats,
                   loadFailed, statsCalls, emptyPasses, statsRaised, firstIds,
                   threads, staleIds>>

TagSimilaritySpec == TagSimilarityInit /\ [][CalculateTagSimilarity]_vars

-----------------------------------------------------------------------------
(* _calculate_similarity called on its own, over performers with absent attributes *)

\* attributes absent from one performer
MaxAbsent == 1

\* the attributes the scorer reads
ScorerKeys == {"bmi", "cup_to_bmi", "o_counter", "scene_count", "band_size",
               "cup_letter", "volume_cc", "height_cm", "weight"}

\* which attributes are absent, and how: present with a null value, or not in the dict
Absences ==
    UNION {[keys -> {None, Missing}] :
               keys \in {k \in SUBSET ScorerKeys : Cardinality(k) <= MaxAbsent}}

\* the performer without the attributes of `absent`
Without(performer, absent) ==
    [key \in DOMAIN performer |->
        IF key \in DOMAIN absent
        THEN IF key = "cup_letter" THEN "" ELSE absent[key]
        ELSE performer[key]]

\* the object, and a call of _calculate_similarity with its arguments bound
SimilarityInit ==
    /\ performers_data = <<>>
    /\ scenes_data = <<>>
    /\ performer_recommendation_cache = <<>>
    /\ scene_recommendation_cache = <<>>
    /\ recommendation_counter = 0
    /\ lastOp = "call _calculate_similarity"
    /\ ret \in [base_performer : {Without(Eve, absent) : absent \in Absences},
                target_performer : {Without(Fay, absent) : absent \in Absences}]
    /\ lastStats = "not_called"
    /\ loadFailed = FALSE
    /\ statsCalls = 0
    /\ emptyPasses = 0
    /\ statsRaised = FALSE
    /\ firstIds = <<>>
    /\ threads = <<>>
    /\ staleIds = {}

\* _calculate_similarity(base_performer, target_performer) (lines 47-131)
CalculateSimilarity ==
    /\ lastOp = "call _calculate_similarity"
    /\ lastOp' = "_calculate_similarity"
    /\ ret' = [base_performer |-> ret.base_performer,
               target_performer |-> ret.target_performer,
               result |-> calculate_similarity(ret.base_performer, ret.target_performer)]
    /\ UNCHANGED <<performers_data, scenes_data, performer_recommendation_cache,
                   scene_recommendation_cache, recommendation_counter, lastStats,
                   loadFailed, statsCalls, emptyPasses, statsRaised, firstIds,
                   threads, staleIds>>

SimilaritySpec == SimilarityInit /\ [][CalculateSimilarity]_vars

-----------------------------------------------------------------------------
(* Two cold passes of recommend_performers over one snapshot, each with its    *)
(* own statistics payload                                                      *)

\* a stats dict with the fields of `stats`, this cup_size_dataframe and this
\* content everywhere else
Payload(stats, cup_df_empty, other_stats) ==
    [top_o_counter_performers |-> stats.top_o_counter_performers,
     top_volume_performers |-> stats.top_volume_performers,
     cup_df_empty |-> cup_df_empty,
     cup_letter_o_stats |-> stats.cup_letter_o_stats,
     other_stats |-> other_stats]

Payloads ==
    {Payload(stats, cup_df_empty, other_stats) :
        stats \in StatsPayloads, cup_df_empty \in BOOLEAN, other_stats \in {<<>>, <<"more">>}}

\* two objects loaded with the same snapshot, and the payloads that
\* generate_all_stats returns to the first call of each
PayloadInit ==
    \E snapshot \in Snapshots :
        /\ performers_data = snapshot.performers
        /\ scenes_data = snapshot.scenes
        /\ performer_recommendation_cache = <<>>
        /\ scene_recommendation_cache = <<>>
        /\ recommendation_counter = 0
        /\ lastOp = "call recommend_performers"
        /\ ret \in [stats1 : Payloads, stats2 : Payloads]
        /\ lastStats = "not_called"
        /\ loadFailed = FALSE
        /\ statsCalls = 0
        /\ emptyPasses = 0
        /\ statsRaised = FALSE
        /\ firstIds = <<>>
        /\ threads = <<>>
        /\ staleIds = {}

\* the ids of the records that a pass with this payload leaves in an empty cache
ColdRecordIds(stats, data) == {Ids(out.cache) : out \in ScoringPass(<<>>, stats, data)}

\* lines 228-403, once with each payload
ColdPasses ==
    /\ lastOp = "call recommend_performers"
    /\ lastOp' = "cold passes"
    /\ ret' = [stats1 |-> ret.stats1, stats2 |-> ret.stats2,
               ids1 |-> ColdRecordIds(ret.stats1, performers_data),
               ids2 |-> ColdRecordIds(ret.stats2, performers_data)]
    /\ UNCHANGED <<performers_data, scenes_data, performer_recommendation_cache,
                   scene_recommendation_cache, recommendation_counter, lastStats,
                   loadFailed, statsCalls, emptyPasses, statsRaised, firstIds,
                   threads, staleIds>>

PayloadSpec == PayloadInit /\ [][ColdPasses]_vars

-----------------------------------------------------------------------------
(* recommend_performers called from threads: the Dash callback
   update_performer_recommendations (dashboard.py lines 1164-1171) runs on
   the threaded server started at dashboard.py line 2037, all callbacks on one
   RecommendationModule, and no statement of recommendations.py takes a lock.
   A call is cut into the steps between which another thread can run; each
   step is at least as coarse as the interpreter's, so every behaviour here
   is one the threads can show. *)

Threads == {1, 2}

\* calls are started while the counter is below this bound
MaxThreadedCounter == 2

\* the snapshots and the stats dict of this specification
ConcSnapshots ==
    { [performers |-> <<Anna, Bea, Cleo>>, scenes |-> <<>>],
      [performers |-> <<AnnaUnseen, Bea>>, scenes |-> <<>>] }

ConcPayload == Stats(<<Anna>>, <<Anna>>, FALSE, <<CupStat("D", 2), CupStat("C", 5)>>)

NoStats == Stats(<<>>, <<>>, TRUE, <<>>)

\* the locals of a call: counter is the value line 212 loaded, stats the dict
\* of line 230, recs the list `recommendations`, exc whether the try block
\* was left, ret the value returned, served whether it came from lines
\* 217-222, stale whether reload_data ran after line 230
IdleFrame ==
    [pc |-> "idle", counter |-> 0, stats |-> NoStats, recs |-> <<>>, exc |-> FALSE,
     ret |-> <<>>, served |-> FALSE, stale |-> FALSE]

PassStages == {"o", "volume", "cup", "finish"}

\* the ids of the records a strategy appended to `recommendations`, which
\* are the ones it stored in the cache
Written(old_recs, new_recs) == {new_recs[i].id : i \in (Len(old_recs) + 1)..Len(new_recs)}

\* the cached ids last written from statistics older than the last reload
StaleAfter(frame, written) ==
    IF frame.stale THEN staleIds \cup written ELSE staleIds \ written

ConcInit ==
    \E snapshot \in ConcSnapshots :
        /\ performers_data = load_data("ok", snapshot).performers
        /\ scenes_data = load_data("ok", snapshot).scenes
        /\ performer_recommendation_cache = <<>>
        /\ scene_recommendation_cache = <<>>
        /\ recommendation_counter = 0
        /\ lastOp = "init"
        /\ ret = <<>>
        /\ lastStats = "not_called"
        /\ loadFailed = FALSE
        /\ statsCalls = 0
        /\ emptyPasses = 0
        /\ statsRaised = FALSE
        /\ firstIds = <<>>
        /\ threads = [t \in Threads |-> IdleFrame]
        /\ staleIds = {}

\* line 212, the read of self._recommendation_counter
LoadCounter(t) ==
    /\ threads[t].pc = "idle"
    /\ recommendation_counter < MaxThreadedCounter
    /\ threads' = [threads EXCEPT ![t] = [IdleFrame EXCEPT !.pc = "store",
                                                          !.counter = recommendation_counter]]
    /\ UNCHANGED <<performers_data, scenes_data, performer_recommendation_cache,
                   scene_recommendation_cache, recommendation_counter, lastOp, ret, lastStats,
                   loadFailed, statsCalls, emptyPasses, statsRaised, firstIds, staleIds>>

\* line 212, the store of the sum
StoreCounter(t) ==
    /\ threads[t].pc = "store"
    /\ recommendation_counter' = threads[t].counter + 1
    /\ threads' = [threads EXCEPT ![t].pc = "check"]
    /\ UNCHANGED <<performers_data, scenes_data, performer_recommendation_cache,
                   scene_recommendation_cache, lastOp, ret, lastStats,
                   loadFailed, statsCalls, emptyPasses, statsRaised, firstIds, staleIds>>

\* lines 215-226
CheckCache(t) ==
    /\ threads[t].pc = "check"
    /\ threads' =
           [threads EXCEPT ![t] =
               IF CacheHit(performer_recommendation_cache)
               THEN [@ EXCEPT !.pc = "done", !.served = TRUE,
                              !.ret = ServePerformers(performer_recommendation_cache,
                                                      recommendation_counter)]
               ELSE IF performers_data = <<>>
               THEN [@ EXCEPT !.pc = "done"]
               ELSE [@ EXCEPT !.pc = "stats"]]
    /\ UNCHANGED <<performers_data, scenes_data, performer_recommendation_cache,
                   scene_recommendation_cache, recommendation_counter, lastOp, ret, lastStats,
                   loadFailed, statsCalls, emptyPasses, statsRaised, firstIds, staleIds>>

\* line 230, and lines 405-407 when it raised
GenerateAllStats(t) ==
    /\ threads[t].pc = "stats"
    /\ \E raised \in BOOLEAN :
           threads' = [threads EXCEPT ![t] =
                          IF raised THEN [@ EXCEPT !.pc = "done"]
                          ELSE [@ EXCEPT !.pc = "o", !.stats = ConcPayload]]
    /\ UNCHANGED <<performers_data, scenes_data, performer_recommendation_cache,
                   scene_recommendation_cache, recommendation_counter, lastOp, ret, lastStats,
                   loadFailed, statsCalls, emptyPasses, statsRaised, firstIds, staleIds>>

\* a strategy left the frame of thread t and the cache as in `out`
StrategyDone(t, out, next) ==
    /\ performer_recommendation_cache' = out.cache
    /\ staleIds' = StaleAfter(threads[t], Written(threads[t].recs, out.recs))
    /\ threads' = [threads EXCEPT ![t].pc = next, ![t].recs = out.recs, ![t].exc = out.exc]
    /\ UNCHANGED <<performers_data, scenes_data, scene_recommendation_cache,
                   recommendation_counter, lastOp, ret, lastStats,
                   loadFailed, statsCalls, emptyPasses, statsRaised, firstIds>>

\* the dict and the list a strategy of thread t works on
Acc(t) ==
    [cache |-> performer_recommendation_cache, recs |-> threads[t].recs, exc |-> threads[t].exc]

\* lines 244-293
OStrategy(t) ==
    /\ threads[t].pc = "o"
    /\ StrategyDone(t, OPhase(performer_recommendation_cache, threads[t].stats, performers_data),
                    "volume")

\* lines 295-349
VolumeStrategy(t) ==
    /\ threads[t].pc = "volume"
    /\ StrategyDone(t, VolumePhase(Acc(t), threads[t].stats, performers_data), "cup")

\* lines 351-398
CupStrategy(t) ==
    /\ threads[t].pc = "cup"
    /\ \E out \in CupPhase(Acc(t),
                           Take(SortDesc(threads[t].stats.cup_letter_o_stats, "avg_o_count", FALSE),
                                TopCups),
                           performers_data) :
           StrategyDone(t, out, "finish")

\* lines 400-407
Finish(t) ==
    /\ threads[t].pc = "finish"
    /\ \E out \in PassResult(Acc(t)) :
           threads' = [threads EXCEPT ![t].pc = "done", ![t].ret = out.ret]
    /\ UNCHANGED <<performers_data, scenes_data, performer_recommendation_cache,
                   scene_recommendation_cache, recommendation_counter, lastOp, ret, lastStats,
                   loadFailed, statsCalls, emptyPasses, statsRaised, firstIds, staleIds>>

\* the caller has the value; the thread is free for the next callback
Return(t) ==
    /\ threads[t].pc = "done"
    /\ threads' = [threads EXCEPT ![t] = IdleFrame]
    /\ UNCHANGED <<performers_data, scenes_data, performer_recommendation_cache,
                   scene_recommendation_cache, recommendation_counter, lastOp, ret, lastStats,
                   loadFailed, statsCalls, emptyPasses, statsRaised, firstIds, staleIds>>

\* reload_data (lines 39-45) called and returned while the threads are where
\* they are: the calls that hold a stats dict hold one older than the reload
ConcReload ==
    \E snapshot \in ConcSnapshots :
        /\ performers_data' = reload_data(Self, load_data("ok", snapshot)).performers_data
        /\ scenes_data' = reload_data(Self, load_data("ok", snapshot)).scenes_data
        /\ performer_recommendation_cache' =
               reload_data(Self, load_data("ok", snapshot)).performer_recommendation_cache
        /\ scene_recommendation_cache' =
               reload_data(Self, load_data("ok", snapshot)).scene_recommendation_cache
        /\ recommendation_counter' =
               reload_data(Self, load_data("ok", snapshot)).recommendation_counter
        /\ threads' = [t \in Threads |->
                          IF threads[t].pc \in PassStages
                          THEN [threads[t] EXCEPT !.stale = TRUE] ELSE threads[t]]
        /\ staleIds' = {}
        /\ UNCHANGED <<lastOp, ret, lastStats, loadFailed, statsCalls, emptyPasses,
                       statsRaised, firstIds>>

ConcNext ==
    \/ \E t \in Threads : LoadCounter(t)
    \/ \E t \in Threads : StoreCounter(t)
    \/ \E t \in Threads : CheckCache(t)
    \/ \E t \in Threads : GenerateAllStats(t)
    \/ \E t \in Threads : OStrategy(t)
    \/ \E t \in Threads : VolumeStrategy(t)
    \/ \E t \in Threads : CupStrategy(t)
    \/ \E t \in Threads : Finish(t)
    \/ \E t \in Threads : Return(t)
    \/ ConcReload

ConcurrentSpec == ConcInit /\ [][ConcNext]_vars

-----------------------------------------------------------------------------
(* The claims *)

PCall == "recommend_performers"
SCall == "recommend_scenes"

\* C1: a recommend_performers call that finds the performer cache filled does
\* not call generate_all_stats, leaves the cache as it was, and returns
\* records of the cache only.
C1_ServedFromCache ==
    [][ (lastOp' = PCall /\ performer_recommendation_cache # <<>>)
        => /\ lastStats' = "not_called"
           /\ statsCalls' = statsCalls
           /\ performer_recommendation_cache' = performer_recommendation_cache
           /\ Range(ret') \subseteq Range(performer_recommendation_cache) ]_vars

\* a call was served from a filled cache
C1_Witness ==
    /\ lastOp = PCall
    /\ lastStats = "not_called"
    /\ performer_recommendation_cache # <<>>
    /\ ret # <<>>

\* C2 as stated: while generate_all_stats works, recommend_performers calls it
\* at most once between two loads.
C2_AtMostOnePass == ~statsRaised => statsCalls <= 1

\* C2 as amended: of the calls of generate_all_stats that recommend_performers
\* made since the last load, exactly one left records in the cache if the
\* cache is filled, and none did if it is empty: every other one was a pass
\* that left the cache empty, and after the one that filled it there is none.
C2_OnePassFillsCache ==
    statsCalls = emptyPasses + (IF performer_recommendation_cache # <<>> THEN 1 ELSE 0)

\* a pass left the cache empty, a later one filled it, and a call after that rotated only
C2_Witness ==
    /\ lastOp = PCall
    /\ lastStats = "not_called"
    /\ performer_recommendation_cache # <<>>
    /\ emptyPasses >= 1

\* C3: reload_data leaves the counter at 0 and both caches empty, and the
\* call that follows it does what a call on empty caches does with the
\* snapshot that reload loaded: it returns and caches nothing older.
C3_ReloadResets ==
    [][ /\ lastOp' = "reload_data"
           => /\ recommendation_counter' = 0
              /\ performer_recommendation_cache' = <<>>
              /\ scene_recommendation_cache' = <<>>
        /\ (lastOp = "reload_data" /\ lastOp' = PCall)
           => [cache |-> performer_recommendation_cache', ret |-> ret', stats |-> lastStats']
                  \in recommend_performers(<<>>, performers_data, 1)
        /\ (lastOp = "reload_data" /\ lastOp' = SCall)
           => [cache |-> scene_recommendation_cache', ret |-> ret', stats |-> lastStats']
                  \in recommend_scenes(<<>>, scenes_data, 1) ]_vars

\* reload_data has run and loaded a snapshot
C3_Witness ==
    /\ lastOp = "reload_data"
    /\ ~loadFailed
    /\ performers_data # <<>>
    /\ scenes_data # <<>>

\* C4 as stated (for the runs in which generate_all_stats did not raise and
\* the first call returned records): every recommend_performers call returns
\* the id set that the first call since the load returned.
C4_SameIdSet ==
    (lastOp = PCall /\ firstIds # <<>> /\ ~statsRaised /\ firstIds[1] # {})
    => Ids(ret) = firstIds[1]

\* C4 as amended: a recommend_performers call returns ids of the cached pool
\* only; a call served from the cache returns all of them when the pool has
\* at most 10 records, and 10 of them when it has more.
C4_WindowOfPool ==
    lastOp = PCall
    => /\ Ids(ret) \subseteq Ids(performer_recommendation_cache)
       /\ (lastStats = "not_called" /\ performer_recommendation_cache # <<>>)
          => IF Len(performer_recommendation_cache) <= Window
             THEN Ids(ret) = Ids(performer_recommendation_cache)
             ELSE Cardinality(Ids(ret)) = Window

\* a pool of several records, at most 10, served from the cache in another order
C4_Witness ==
    /\ lastOp = PCall
    /\ lastStats = "not_called"
    /\ Len(performer_recommendation_cache) > 1
    /\ Len(performer_recommendation_cache) <= Window
    /\ ret # performer_recommendation_cache

\* C5: with recommend_performers called again and again and no reload_data,
\* every record of the cached pool is eventually in the list that a
\* recommend_performers call returns; stated for the record that the first
\* seed of the o_counter strategy gets.
C5_EveryRecordServed ==
    ("o_counter_1" \in Ids(performer_recommendation_cache))
        ~> (lastOp = PCall /\ "o_counter_1" \in Ids(ret))

\* C6: the performer cache is empty or holds exactly the records of one
\* scoring pass over the snapshot that ran to completion.
C6_AllOrNothing ==
    \/ performer_recommendation_cache = <<>>
    \/ \E stats \in StatsPayloads :
          \E out \in ScoringPass(<<>>, stats, performers_data) :
              ~out.exc /\ out.cache = performer_recommendation_cache

\* C7: a call in which generate_all_stats raised returns the empty result and
\* leaves both caches as they were.
C7_StatsFailureAbsorbed ==
    [][ lastStats' = "raised"
        => /\ ret' = <<>>
           /\ performer_recommendation_cache' = performer_recommendation_cache
           /\ scene_recommendation_cache' = scene_recommendation_cache ]_vars

\* generate_all_stats raised in recommend_scenes while the performer cache was filled
C7_Witness ==
    /\ lastOp = SCall
    /\ lastStats = "raised"
    /\ performer_recommendation_cache # <<>>

\* C8: after a load that failed, both lists are empty, and until the next
\* load every recommend_* call returns the empty result, without calling
\* generate_all_stats and with both caches left empty.
C8_LoadFailureAbsorbed ==
    loadFailed
    => /\ performers_data = <<>>
       /\ scenes_data = <<>>
       /\ performer_recommendation_cache = <<>>
       /\ scene_recommendation_cache = <<>>
       /\ lastOp \in {PCall, SCall} => (ret = <<>> /\ lastStats = "not_called")

\* recommend_* calls were made after a load that failed
C8_Witness ==
    /\ loadFailed
    /\ lastOp = PCall
    /\ recommendation_counter >= 2

\* the o_counter the snapshot gives for the performer with this id is 0
UnseenInSnapshot(id) ==
    /\ \E i \in 1..Len(performers_data) : performers_data[i].id = id
    /\ \A i \in 1..Len(performers_data) :
          performers_data[i].id = id => Get(performers_data[i], "o_counter", 0) = 0

\* C9: every candidate of every record that recommend_performers returns is a
\* performer whose o_counter in the snapshot is 0.
C9_CandidatesUnseen ==
    lastOp = PCall
    => \A i \in 1..Len(ret) :
          \A j \in 1..Len(ret[i].similar_performers) :
              UnseenInSnapshot(ret[i].similar_performers[j].id)

\* a call served from the cache returned records of all three strategies
C9_Witness ==
    /\ lastOp = PCall
    /\ lastStats = "not_called"
    /\ {ret[i].recommendation_type : i \in 1..Len(ret)}
           = {"o_counter_similarity", "volume_similarity", "cup_size_popularity"}

\* C10: no returned record that is seeded by a performer lists that performer
\* among its candidates.
C10_NeverOwnSeed ==
    lastOp = PCall
    => \A i \in 1..Len(ret) :
          ret[i].seed # ""
          => \A j \in 1..Len(ret[i].similar_performers) :
                 ret[i].similar_performers[j].id # ret[i].seed


\* C11: every list that recommend_performers returns, from a pass or from
\* the cache, has at most 10 records, and every record of it lists at most 5
\* candidates.
C11_ListsCapped ==
    lastOp = PCall
    => /\ Len(ret) <= 10
       /\ \A i \in 1..Len(ret) : Len(ret[i].similar_performers) <= 5

\* the performers of the snapshot that no o_counter has seen
UnseenPerformers ==
    {i \in 1..Len(performers_data) : Get(performers_data[i], "o_counter", 0) = 0}

\* a call served 10 records of a larger pool, one of them with 5 of the more
\* than 5 unseen performers of the snapshot
C11_Witness ==
    /\ lastOp = PCall
    /\ lastStats = "not_called"
    /\ Len(performer_recommendation_cache) > 10
    /\ Len(ret) = 10
    /\ Cardinality(UnseenPerformers) > 5
    /\ \E i \in 1..Len(ret) : Len(ret[i].similar_performers) = 5


\* the places <<category, position>> of the returned mapping that hold the scene with this id
Places(id) ==
    {p \in UNION {{<<c, j>> : j \in 1..Len(ret[c].scenes)} : c \in 1..Len(ret)} :
        ret[p[1]].scenes[p[2]].id = id}

\* the scenes of the snapshot that no o_counter has seen
UnseenScenes == {i \in 1..Len(scenes_data) : scenes_data[i].o_counter = 0}

\* the cap of the category list ret[c]
CapOf(c) == IF ret[c].category = "similar_tag_scenes" THEN 15 ELSE 10

\* C12 as stated: in a mapping that recommend_scenes returns, every scene of
\* the snapshot with o_counter = 0 is in exactly one category list.
C12_ExactlyOneCategory ==
    (lastOp = SCall /\ ret # <<>>)
    => \A i \in UnseenScenes : Cardinality(Places(scenes_data[i].id)) = 1

\* C12 as amended: every scene of the snapshot with o_counter = 0 is in at
\* most one category list of the returned mapping, and in exactly one when
\* no category list is filled up to its cap.
C12_AtMostOneCategory ==
    (lastOp = SCall /\ ret # <<>>)
    => /\ \A i \in UnseenScenes : Cardinality(Places(scenes_data[i].id)) <= 1
       /\ (\A c \in 1..Len(ret) : Len(ret[c].scenes) < CapOf(c))
          => \A i \in UnseenScenes : Cardinality(Places(scenes_data[i].id)) = 1

\* a mapping with unseen scenes in three categories, none of them full
C12_Witness ==
    /\ lastOp = SCall
    /\ ret # <<>>
    /\ Cardinality(UnseenScenes) >= 4
    /\ Cardinality({c \in 1..Len(ret) : ret[c].scenes # <<>>}) >= 3


\* the scene with this id is in the snapshot, with o_counter 0
UnseenSceneInSnapshot(id) ==
    /\ \E i \in 1..Len(scenes_data) : scenes_data[i].id = id
    /\ \A i \in 1..Len(scenes_data) : scenes_data[i].id = id => scenes_data[i].o_counter = 0

\* C13: every scene in every category of a mapping that recommend_scenes
\* returns, from a pass or from the cache, has o_counter 0 in the snapshot.
C13_ScenesUnseen ==
    lastOp = SCall
    => \A c \in 1..Len(ret) :
          \A j \in 1..Len(ret[c].scenes) : UnseenSceneInSnapshot(ret[c].scenes[j].id)

\* a mapping with scenes, served from the cache, over a snapshot that has seen scenes too
C13_Witness ==
    /\ lastOp = SCall
    /\ lastStats = "not_called"
    /\ \E c \in 1..Len(ret) : ret[c].scenes # <<>>
    /\ \E i \in 1..Len(scenes_data) : scenes_data[i].o_counter > 0


\* the scene of the snapshot with this id
SceneById(id) == scenes_data[CHOOSE i \in 1..Len(scenes_data) : scenes_data[i].id = id]

\* the first category, in priority order, whose predicate the scene behind a
\* returned entry satisfies, given the names of the top-o_counter performers
FirstCategory(entry, top_names) ==
    IF \E i \in 1..Len(SceneById(entry.id).performers) : SceneById(entry.id).performers[i].favorite
    THEN "favorite_performer_scenes"
    ELSE IF \E i \in 1..Len(entry.performers) : entry.performers[i] \in top_names
    THEN "recommended_performer_scenes"
    ELSE IF 10 * entry.tag_similarity[1] > 3 * entry.tag_similarity[2]
    THEN "similar_tag_scenes"
    ELSE "non_favorite_performer_scenes"

\* the names of the top-o_counter performers of a stats dict
TopNames(stats) ==
    {stats.top_o_counter_performers[k].name : k \in 1..Len(stats.top_o_counter_performers)}

\* C14: every scene of a mapping that recommend_scenes returns is in the
\* first category, in the order favorite, recommended, similar_tag,
\* non_favorite, whose predicate it satisfies -- a favorite performer; a
\* performer named among the top-o_counter performers of the stats the pass
\* got; tag_similarity > 0.3; else the fallback.
C14_FirstCategoryWins ==
    (lastOp = SCall /\ ret # <<>>)
    => \E stats \in StatsPayloads :
          \A c \in 1..Len(ret) :
              \A j \in 1..Len(ret[c].scenes) :
                  ret[c].category = FirstCategory(ret[c].scenes[j], TopNames(stats))

\* the entry belongs to a scene with a favorite who is a top performer
\* too, and with a tag_similarity above the threshold
WinsOverAll(entry) ==
    /\ \E i \in 1..Len(SceneById(entry.id).performers) :
          /\ SceneById(entry.id).performers[i].favorite
          /\ SceneById(entry.id).performers[i].name \in UNION {TopNames(stats) : stats \in StatsPayloads}
    /\ 10 * entry.tag_similarity[1] > 3 * entry.tag_similarity[2]

\* a pass returned a mapping in which a scene that satisfies all three
\* predicates is a favorite_performer_scenes entry
C14_Witness ==
    /\ lastOp = SCall
    /\ lastStats = "returned"
    /\ ret # <<>>
    /\ \E c \in 1..Len(ret) :
          /\ ret[c].category = "favorite_performer_scenes"
          /\ \E j \in 1..Len(ret[c].scenes) : WinsOverAll(ret[c].scenes[j])


\* entry x ranks strictly below entry y by the sort key of the category
RanksBelow(category, x, y) ==
    IF category = "similar_tag_scenes"
    THEN RGt(y.tag_similarity, x.tag_similarity)
    ELSE y.similarity > x.similarity

\* the list is in non-increasing order of the sort key of the category
NonIncreasing(category, list) ==
    \A i \in 1..Len(list) : \A j \in 1..Len(list) :
        i < j => ~RanksBelow(category, list[i], list[j])

\* C15 as stated: in every mapping that recommend_scenes returns, from a pass
\* or from the cache, similar_tag_scenes is in non-increasing tag_similarity
\* order with at most 15 entries and every other category in non-increasing
\* 'similarity' order with at most 10 entries.
C15_SortedAndCapped ==
    (lastOp = SCall /\ ret # <<>>)
    => \A c \in 1..Len(ret) :
          /\ Len(ret[c].scenes) <= CapOf(c)
          /\ NonIncreasing(ret[c].category, ret[c].scenes)

\* C15 as amended: the caps hold for every returned mapping; a mapping that a
\* pass returns has every category in non-increasing order of its key, and a
\* mapping served from the cache has every category in that order up to a
\* rotation.
C15_SortedUpToRotation ==
    (lastOp = SCall /\ ret # <<>>)
    => \A c \in 1..Len(ret) :
          /\ Len(ret[c].scenes) <= CapOf(c)
          /\ lastStats = "returned" => NonIncreasing(ret[c].category, ret[c].scenes)
          /\ \E k \in 0..Len(ret[c].scenes) :
                NonIncreasing(ret[c].category, Rotate(ret[c].scenes, k))

\* a call served from the cache returned a full category whose best entry is not the first
C15_Witness ==
    /\ lastOp = SCall
    /\ lastStats = "not_called"
    /\ \E c \in 1..Len(ret) :
          /\ Len(ret[c].scenes) = CapOf(c)
          /\ Cardinality(UnseenScenes) > CapOf(c)
          /\ ~NonIncreasing(ret[c].category, ret[c].scenes)


\* the scenario: the snapshot holds seed A (Anna) and the unseen B (Bea) and
\* C (Cleo), and the returned list has the o_counter_similarity record of A
ScenarioABC(i) ==
    /\ lastOp = PCall
    /\ performers_data = <<Anna, Bea, Cleo>>
    /\ i \in 1..Len(ret)
    /\ ret[i].id = "o_counter_" \o Anna.id

\* C16 as stated: the o_counter_similarity record seeded by A lists B ahead
\* of C, with a score strictly greater than the score of C.
C16_BAboveC ==
    \A i \in 1..Len(ret) :
        ScenarioABC(i)
        => \E b \in 1..Len(ret[i].similar_performers) :
              \E c \in 1..Len(ret[i].similar_performers) :
                  /\ b < c
                  /\ ret[i].similar_performers[b].id = Bea.id
                  /\ ret[i].similar_performers[c].id = Cleo.id
                  /\ RGt(ret[i].similar_performers[b].similarity,
                         ret[i].similar_performers[c].similarity)

\* C16 as amended: the score of B against A is strictly greater than the
\* score of C against A and is above the threshold 0.5, the score of C is
\* not, and the o_counter_similarity record seeded by A lists B, with that
\* score, and does not list C.
C16_BListedCNot ==
    \A i \in 1..Len(ret) :
        ScenarioABC(i)
        => /\ RGt(calculate_similarity(Anna, Bea).val, calculate_similarity(Anna, Cleo).val)
           /\ RGt(calculate_similarity(Anna, Bea).val, Rat(5, 10))
           /\ ~RGt(calculate_similarity(Anna, Cleo).val, Rat(5, 10))
           /\ Len(ret[i].similar_performers) = 1
           /\ ret[i].similar_performers[1].id = Bea.id
           /\ ret[i].similar_performers[1].similarity = calculate_similarity(Anna, Bea).val

\* the record seeded by A was returned over the snapshot of A, B and C
C16_Witness == \E i \in 1..Len(ret) : ScenarioABC(i)


\* how often the tag occurs in a tag list
Occurs(tag, tags) == Cardinality({k \in 1..Len(tags) : tags[k] = tag})

\* the accumulated weight of a tag: the sum of scene.o_counter over its
\* occurrences in the scenes[1..n] with o_counter >= min_o_counter
RECURSIVE TagWeight(_, _, _, _)
TagWeight(tag, scenes, n, min_o_counter) ==
    IF n = 0 THEN 0
    ELSE TagWeight(tag, scenes, n - 1, min_o_counter)
         + (IF scenes[n].o_counter >= min_o_counter
            THEN scenes[n].o_counter * Occurs(tag, scenes[n].tags)
            ELSE 0)

\* the weight of a tag for the call whose result is in ret
WeightNow(tag) == TagWeight(tag, scenes_data, Len(scenes_data), ret.min_o_counter)

\* the tag names that occur in a scene at or above the threshold of the call
QualifyingTags ==
    UNION {Range(scenes_data[i].tags) :
               i \in {k \in 1..Len(scenes_data) : scenes_data[k].o_counter >= ret.min_o_counter}}
    \ {""}

\* the scenes of the scenario: tags x, y with o_counter 5, then tag x with o_counter 1
IsTagScenario ==
    /\ [i \in 1..Len(scenes_data) |-> scenes_data[i].tags] = << <<"x", "y">>, <<"x">> >>
    /\ [i \in 1..Len(scenes_data) |-> scenes_data[i].o_counter] = <<5, 1>>

\* C17: _get_popular_tags(min_o_counter, top_n) returns at most top_n tag
\* names, without repetition, in non-increasing order of accumulated weight;
\* every returned tag occurs in a scene with o_counter >= min_o_counter; no
\* tag left out outweighs a returned one, and none is left out while there
\* is room; over the scenario's scenes with min 3 the result is x, y, each
\* weighted 5.
C17_PopularTags ==
    lastOp = "_get_popular_tags"
    => /\ Len(ret.tags) <= ret.top_n
       /\ \A i \in 1..Len(ret.tags) : \A j \in 1..Len(ret.tags) :
             i < j => /\ ret.tags[i] # ret.tags[j]
                      /\ WeightNow(ret.tags[i]) >= WeightNow(ret.tags[j])
       /\ Range(ret.tags) \subseteq QualifyingTags
       /\ \A tag \in QualifyingTags \ Range(ret.tags) :
             /\ Len(ret.tags) = ret.top_n
             /\ \A i \in 1..Len(ret.tags) : WeightNow(ret.tags[i]) >= WeightNow(tag)
       /\ (IsTagScenario /\ ret.min_o_counter = 3 /\ ret.top_n = 5)
          => /\ ret.tags = <<"x", "y">>
             /\ WeightNow("x") = 5
             /\ WeightNow("y") = 5

\* the scenario's call: x of the second scene is below the threshold
C17_Witness ==
    /\ lastOp = "_get_popular_tags"
    /\ IsTagScenario
    /\ ret.min_o_counter = 3
    /\ ret.top_n = 5
    /\ ret.tags = <<"x", "y">>


\* the rational is n / d
IsQuotient(r, n, d) == r[2] > 0 /\ r[1] * d = n * r[2]

\* C18: _calculate_tag_similarity(A, B) is |A n B| / |A u B| of the two
\* inputs taken as sets, and 0 when either is empty; so it is 0 for disjoint
\* sets, 1 for equal non-empty sets, and within [0, 1].
C18_Jaccard ==
    lastOp = "_calculate_tag_similarity"
    => /\ (ret.tags1 = <<>> \/ ret.tags2 = <<>>) => ret.similarity = RZero
       /\ (ret.tags1 # <<>> /\ ret.tags2 # <<>>)
          => IsQuotient(ret.similarity,
                        Cardinality(Range(ret.tags1) \cap Range(ret.tags2)),
                        Cardinality(Range(ret.tags1) \cup Range(ret.tags2)))
       /\ Range(ret.tags1) \cap Range(ret.tags2) = {} => ret.similarity = RZero
       /\ (Range(ret.tags1) = Range(ret.tags2) /\ ret.tags1 # <<>>) => ret.similarity = ROne
       /\ ~RGt(RZero, ret.similarity)
       /\ ~RGt(ret.similarity, ROne)

\* a call with a repeated tag on one side and a partial overlap: 1 / 2
C18_Witness ==
    /\ lastOp = "_calculate_tag_similarity"
    /\ ret.tags1 = <<"a", "a">>
    /\ ret.tags2 = <<"a", "b">>
    /\ ret.similarity = Rat(1, 2)


\* C19: _calculate_similarity returns a score, it never raises, also when an
\* attribute the scorer reads is not in the dict or is there with a null
\* value, on the seed or on the candidate.
C19_AbsentNeverRaises ==
    lastOp = "_calculate_similarity" => ~ret.result.exc


\* the two payloads agree on top_o_counter_performers, on
\* volume_stats.top_volume_performers and on
\* cup_size_o_counter_correlation.cup_letter_o_stats
AgreeOnThree ==
    /\ ret.stats1.top_o_counter_performers = ret.stats2.top_o_counter_performers
    /\ ret.stats1.top_volume_performers = ret.stats2.top_volume_performers
    /\ ret.stats1.cup_letter_o_stats = ret.stats2.cup_letter_o_stats

\* C20 as stated: two payloads that agree on the three fields give, over the
\* same snapshot, the same set of cached record ids.
C20_ThreeFieldsOnly ==
    (lastOp = "cold passes" /\ AgreeOnThree) => ret.ids1 = ret.ids2

\* C20 as amended: two payloads that agree on the three fields and on
\* whether cup_size_stats.cup_size_dataframe is empty give, over the same
\* snapshot, the same set of cached record ids.
C20_FourFieldsOnly ==
    (lastOp = "cold passes" /\ AgreeOnThree /\ ret.stats1.cup_df_empty = ret.stats2.cup_df_empty)
    => ret.ids1 = ret.ids2

\* two payloads that differ elsewhere only, with volume records among the cached ones
C20_Witness ==
    /\ lastOp = "cold passes"
    /\ AgreeOnThree
    /\ ret.stats1.cup_df_empty = ret.stats2.cup_df_empty
    /\ ret.stats1.other_stats # ret.stats2.other_stats
    /\ ret.ids1 = ret.ids2
    /\ \E ids \in ret.ids1 : "volume_" \o Anna.id \in ids


\* C21 as stated: a recommend_performers call served from the cache, with c
\* the counter before the call and P the cached pool, returns the first 10
\* elements of P[i:] + P[:i] with i = c mod len(P), and leaves the counter
\* at c + 1.
C21_RotationByOldCounter ==
    [][ (lastOp' = PCall /\ performer_recommendation_cache # <<>>)
        => /\ ret' = Take(Rotate(performer_recommendation_cache,
                                 recommendation_counter % Len(performer_recommendation_cache)), 10)
           /\ recommendation_counter' = recommendation_counter + 1 ]_vars

\* C21 as amended: the call first raises the counter from c to c + 1 and then
\* returns the first 10 elements of P[i:] + P[:i] with i = (c + 1) mod len(P).
C21_RotationByNewCounter ==
    [][ (lastOp' = PCall /\ performer_recommendation_cache # <<>>)
        => /\ ret' = Take(Rotate(performer_recommendation_cache,
                                 (recommendation_counter + 1) % Len(performer_recommendation_cache)), 10)
           /\ recommendation_counter' = recommendation_counter + 1 ]_vars

\* a call served from a pool of three records, rotated by the raised counter
C21_Witness ==
    /\ lastOp = PCall
    /\ lastStats = "not_called"
    /\ Len(performer_recommendation_cache) = 3
    /\ recommendation_counter % 3 # 0
    /\ ret = Rotate(performer_recommendation_cache, recommendation_counter % 3)


\* the rotation index the next call will use on a cached list of this length
NextIndex(counter, length) == (counter + 1) % length

\* C22: a recommend_scenes call leaves the rotation index that the next
\* recommend_performers call will use on the cached pool as it was, and a
\* recommend_performers call leaves the rotation index that the next
\* recommend_scenes call will use on every cached category as it was.
C22_CounterPerCache ==
    [][ /\ (lastOp' = SCall /\ performer_recommendation_cache # <<>>)
           => NextIndex(recommendation_counter', Len(performer_recommendation_cache'))
                  = NextIndex(recommendation_counter, Len(performer_recommendation_cache))
        /\ (lastOp' = PCall /\ scene_recommendation_cache # <<>>)
           => \A c \in 1..Len(scene_recommendation_cache) :
                  scene_recommendation_cache[c].scenes # <<>>
                  => NextIndex(recommendation_counter', Len(scene_recommendation_cache'[c].scenes))
                         = NextIndex(recommendation_counter, Len(scene_recommendation_cache[c].scenes))
      ]_vars


\* C23: two recommend_performers calls that run at the same time against an
\* empty cache behave as one atomic check-compute-populate step: at most
\* one of them is ever inside the scoring pass (line 230 to line 403)
C23_SinglePass ==
    \A t1 \in Threads, t2 \in Threads :
        (t1 # t2 /\ threads[t1].pc \in PassStages) => threads[t2].pc \notin PassStages


\* the lists a call can be served from the cache of a finished pass: the
\* rotations, cut to ten, of the records one whole pass over a snapshot stores
FinishedPassLists ==
    UNION { UNION { {Take(Rotate(out.cache, i), 10) : i \in 0..(Len(out.cache) - 1)} :
                    out \in ScoringPass(<<>>, ConcPayload, snapshot.performers) } :
            snapshot \in ConcSnapshots }

\* C24: a recommend_performers call that runs while another call's cold
\* scoring pass is under way never returns a slice of a partly populated
\* cache: every list it returns from the cache is a rotation of the whole
\* record set of a finished pass
C24_NeverPartial ==
    \A t \in Threads :
        (threads[t].pc = "done" /\ threads[t].served) => threads[t].ret \in FinishedPassLists

\* C25: once reload_data has returned, the performer cache holds no record
\* that a pass computed from statistics it fetched before that reload, even
\* if the pass was under way when reload_data was called
C25_ReloadExclusive ==
    \A i \in 1..Len(performer_recommendation_cache) :
        performer_recommendation_cache[i].id \notin staleIds


\* the value is there: the key is in the dict and its value is not null
Present(x) == x # None /\ x # Missing

BothNonZero(a, b) == Present(a) /\ Present(b) /\ a # 0 /\ b # 0

BothAboveZero(a, b) == Present(a) /\ Present(b) /\ a > 0 /\ b > 0

\* a row of the table: tenths * (1 - min(diff / scale, 1)) / 10 if the row is valid
Row(valid, diff, scale, tenths) ==
    IF valid THEN Rat(tenths * (scale - Min(diff, scale)), 10 * scale) ELSE RZero

\* a row whose scale is max(a, b)
RatioRow(valid, a, b, tenths) == Row(valid, Abs(a - b), Max(a, b), tenths)

InAlphabet(c) == c \in {"A", "B", "C", "D", "E", "F", "G", "H", "I", "J", "K"}

Position(c) == CHOOSE i \in 1..11 : cup_letters[i] = c

\* the sum of the eight rows of the table over the pair (b, t); cup_to_bmi_valid
\* is the validity predicate of the first row
TableSum(b, t, cup_to_bmi_valid) ==
    RAdd(RatioRow(cup_to_bmi_valid, b.cup_to_bmi, t.cup_to_bmi, 3),
    RAdd(RatioRow(BothAboveZero(b.o_counter, t.o_counter), b.o_counter, t.o_counter, 2),
    RAdd(RatioRow(BothAboveZero(b.scene_count, t.scene_count), b.scene_count, t.scene_count, 1),
    RAdd(RatioRow(BothNonZero(b.band_size, t.band_size), b.band_size, t.band_size, 2),
    RAdd(IF InAlphabet(b.cup_letter) /\ InAlphabet(t.cup_letter)
         THEN Row(TRUE, Abs(Position(b.cup_letter) - Position(t.cup_letter)), 11, 2)
         ELSE RZero,
    RAdd(RatioRow(BothAboveZero(b.volume_cc, t.volume_cc), b.volume_cc, t.volume_cc, 3),
    RAdd(Row(BothAboveZero(b.height_cm, t.height_cm), Abs(b.height_cm - t.height_cm), 30, 1),
         Row(BothAboveZero(b.weight, t.weight), Abs(b.weight - t.weight), 30, 1))))))))

CachedSceneRecommendations ==
    UNION {Range(scene_recommendation_cache[c].scenes) :
               c \in 1..Len(scene_recommendation_cache)}

\* the number of the distinct tag names of the recommendation that
\* _get_popular_tags(min_o_counter) returns for the scenes loaded
PopularTagCount(recommendation, min_o_counter) ==
    Cardinality({tag \in Range(recommendation.tags) :
                    tag \in Range(get_popular_tags(scenes_data, min_o_counter, 20))})

\* C27 as stated: the 'similarity' field of every scene recommendation is the
\* number of the scene's distinct tag names that _get_popular_tags returns
\* with minimum o_counter 1
C27_PopularFromOne ==
    \A recommendation \in CachedSceneRecommendations :
        recommendation.similarity = PopularTagCount(recommendation, 1)

\* C27: the 'similarity' field of every scene recommendation is the number
\* of the scene's distinct tag names that _get_popular_tags returns with
\* minimum o_counter 3
C27_PopularFromThree ==
    \A recommendation \in CachedSceneRecommendations :
        recommendation.similarity = PopularTagCount(recommendation, 3)

\* a recommendation whose tag is popular from o_counter 1 on, not from 3 on,
\* next to one with a tag popular from 3 on
C27_Witness ==
    /\ \E recommendation \in CachedSceneRecommendations :
           /\ PopularTagCount(recommendation, 1) = 1
           /\ recommendation.similarity = 0
    /\ \E recommendation \in CachedSceneRecommendations : recommendation.similarity = 1


\* the seeds the stats dicts name
KnownSeeds(stats) ==
    [i \in 1..Len(stats.top_o_counter_performers) |-> stats.top_o_counter_performers[i]]
    \o [i \in 1..Len(stats.top_volume_performers) |-> stats.top_volume_performers[i]]

\* the seed with this id
SeedOf(id) ==
    LET stats == CHOOSE s \in StatsPayloads :
                     \E i \in 1..Len(KnownSeeds(s)) : KnownSeeds(s)[i].id = id
        i == CHOOSE i \in 1..Len(KnownSeeds(stats)) : KnownSeeds(stats)[i].id = id
    IN  KnownSeeds(stats)[i]

\* the general score of the performer at place i of the snapshot against the seed
Score(seed, i) == calculate_similarity(seed, performers_data[i])

\* the candidates of the o_counter strategy that pass its threshold, as
\* [id, value]: the unseen performers other than the seed that score above 0.5
OQualifying(seed) ==
    {[id |-> performers_data[i].id, value |-> Score(seed, i).val] :
        i \in {j \in 1..Len(performers_data) :
                  /\ performers_data[j].id # seed.id
                  /\ Get(performers_data[j], "o_counter", 0) = 0
                  /\ ~Score(seed, j).exc
                  /\ RGt(Score(seed, j).val, Rat(1, 2))}}

\* 1 - |a - b| / max(a, b) of two positive volumes
VolumeValue(a, b) == Rat(Min(a, b), Max(a, b))

\* the candidates of the volume strategy that pass its threshold: the unseen
\* performers with a volume whose volume-only similarity is above 0.7
VolumeQualifying(seed) ==
    {[id |-> performers_data[i].id,
      value |-> VolumeValue(performers_data[i].volume_cc, seed.volume_cc)] :
        i \in {j \in 1..Len(performers_data) :
                  /\ ~(Get(performers_data[j], "o_counter", 0) > 0)
                  /\ Get(performers_data[j], "volume_cc", 0) > 0
                  /\ 10 * Min(performers_data[j].volume_cc, seed.volume_cc)
                         > 7 * Max(performers_data[j].volume_cc, seed.volume_cc)}}

\* list holds the up-to-five highest of the qualifying candidates, highest first
IsTopFive(list, qualifying) ==
    /\ Len(list) >= 1
    /\ Len(list) = Min(5, Cardinality(qualifying))
    /\ \A k \in 1..Len(list) : [id |-> list[k].id, value |-> list[k].similarity] \in qualifying
    /\ \A j \in 1..Len(list), k \in 1..Len(list) : j # k => list[j].id # list[k].id
    /\ \A k \in 1..(Len(list) - 1) : ~RGt(list[k + 1].similarity, list[k].similarity)
    /\ \A q \in qualifying :
           (\A k \in 1..Len(list) : list[k].id # q.id) =>
               ~RGt(q.value, list[Len(list)].similarity)

\* C28: the candidate list of every o_counter_similarity and volume_similarity
\* record is the up-to-five highest-valued candidates among those above the
\* strategy's threshold (general score above 0.5; volume-only similarity
\* above 0.7), in non-increasing order of the value; there is no record
\* without a qualifying candidate
C28_TopFiveAboveThreshold ==
    \A i \in 1..Len(performer_recommendation_cache) :
        LET record == performer_recommendation_cache[i] IN
        /\ record.recommendation_type = "o_counter_similarity" =>
               IsTopFive(record.similar_performers, OQualifying(SeedOf(record.seed)))
        /\ record.recommendation_type = "volume_similarity" =>
               IsTopFive(record.similar_performers, VolumeQualifying(SeedOf(record.seed)))

\* a pass cached an o_counter and a volume record of five candidates each out
\* of more than five that qualify, the first of the snapshot not among them
C28_Witness ==
    /\ \E i \in 1..Len(performer_recommendation_cache) :
           LET record == performer_recommendation_cache[i] IN
           /\ record.recommendation_type = "o_counter_similarity"
           /\ Len(record.similar_performers) = 5
           /\ Cardinality(OQualifying(SeedOf(record.seed))) > 5
           /\ \A k \in 1..5 : record.similar_performers[k].id # performers_data[2].id
    /\ \E i \in 1..Len(performer_recommendation_cache) :
           LET record == performer_recommendation_cache[i] IN
           /\ record.recommendation_type = "volume_similarity"
           /\ Len(record.similar_performers) = 5
           /\ Cardinality(VolumeQualifying(SeedOf(record.seed))) > 5


\* no two records of the list have the same id
DistinctIds(list) ==
    \A i \in 1..Len(list), j \in 1..Len(list) : i # j => list[i].id # list[j].id

\* C29: no two records of the performer cache, and no two records of a list
\* that recommend_performers returns, from a cold pass or from the cache,
\* have the same id
C29_NoDuplicateIds ==
    /\ DistinctIds(performer_recommendation_cache)
    /\ lastOp = PCall => DistinctIds(ret)


\* `rotated` is the list `cached`, begun k places further on and wrapped around
IsRotationBy(rotated, cached, k) ==
    /\ Len(rotated) = Len(cached)
    /\ \A i \in 1..Len(cached) : rotated[i] = cached[((i - 1 + k) % Len(cached)) + 1]

\* C30: a recommend_scenes call served from the scene cache returns, for every
\* category, the cached list of that category rotated by the counter (as the
\* call has raised it) modulo the length of that list, an empty list as it
\* is; the cache is left as it was
C30_CategoriesRotated ==
    [][ (lastOp' = SCall /\ scene_recommendation_cache # <<>>) =>
            /\ scene_recommendation_cache' = scene_recommendation_cache
            /\ Len(ret') = Len(scene_recommendation_cache)
            /\ \A c \in 1..Len(scene_recommendation_cache) :
                   /\ ret'[c].category = scene_recommendation_cache[c].category
                   /\ IF scene_recommendation_cache[c].scenes = <<>>
                      THEN ret'[c].scenes = <<>>
                      ELSE IsRotationBy(ret'[c].scenes, scene_recommendation_cache[c].scenes,
                                        recommendation_counter'
                                            % Len(scene_recommendation_cache[c].scenes))
      ]_vars

\* a call served from the cache returned one category rotated by a non-zero
\* index and another, of another length, by another index
C30_Witness ==
    /\ lastOp = SCall
    /\ lastStats = "not_called"
    /\ \E c \in 1..Len(scene_recommendation_cache), d \in 1..Len(scene_recommendation_cache) :
           /\ Len(scene_recommendation_cache[c].scenes) >= 2
           /\ Len(scene_recommendation_cache[d].scenes) >= 1
           /\ recommendation_counter % Len(scene_recommendation_cache[c].scenes) # 0
           /\ recommendation_counter % Len(scene_recommendation_cache[c].scenes)
                  # recommendation_counter % Len(scene_recommendation_cache[d].scenes)
           /\ ret[c].scenes # scene_recommendation_cache[c].scenes

=============================================================================
